---- MODULE Spec2Model ----
(***************************************************************************)
(* Model of the agent_server dispatch fabric (src/app/main.py and the      *)
(* managers it drives): per-session run state machine, worker pool,        *)
(* engine streaming bridge, TTS coupling and thread memory.                *)
(*                                                                         *)
(* asyncio runs one coroutine at a time, so every action below is the code *)
(* a coroutine executes between two suspension points (an await that can   *)
(* actually yield: a socket emit, a wait on a queue, a lock or a timer).   *)
(* The producer of generate_stream runs on an OS thread and interleaves    *)
(* freely with the event loop.                                             *)
(***************************************************************************)
EXTENDS Integers, Sequences, FiniteSets, TLC

\* ---------------------------------------------------------------- bounds
\* Number of Chat events / STT transcripts issued in one behaviour.
MaxReq == 2
\* Number of well-formed Chat events where malformed events are sent as well.
MaxTyped == 1
\* Turns a thread holds before the first run, and the length of a long turn.
MaxTurns == 2
LongLen == 40
\* Number of parts the model (llama) streams for one generation.
MaxDeltas == 2
\* Drops of the STT upstream link.
MaxDrops == 1
\* Transcripts the STT server sends.
MaxSpoken == 1

\* ------------------------------------------------------ program constants
POOL_SIZE == 1
REQ_TIMEOUT_S == 1
QUEUE_MAXSIZE == 256
DEFAULT_MAX_CONTEXT_TOKENS == 1024
MIN_CHAR_BUDGET == 64
CHARS_PER_TOKEN == 4

\* ------------------------------------------------------------- universes
SIDS == {"s1", "s2"}
THREADS == {"T1"}
TTS_CLIENTS == {"t1"}
STT_CLIENTS == {"c1", "c2"}
\* What a client can put in the agent, text and clientId fields of a payload.
AGENT_NAMES == {"topic", "nope", ""}
TEXTS == {"hi", ""}
\* The agents directory holds the preset the clients name, with or without a
\* preset called router.
AGENT_SETS == {{"topic"}, {"topic", "router"}}
\* The k-th delta the model produces, as a string of characters.
DeltaAt(k) == IF k % 2 = 1 THEN <<"x">> ELSE <<"y", "z">>
\* Items of the handoff buffer that are not deltas.
Q_NONE == <<"__NONE__">>
Q_ERROR == <<"__ERROR__">>
\* The values max_context_tokens is configured with in agent_config.json.
TOKENS == {-1, 0, 1, 16, 17, 25}
\* The text of a turn: empty, short, long.
CONTENTS == {<<>>, <<"hi">>, [i \in 1..LongLen |-> "a"]}
\* preamble() returned None; the engine was given no payload.
NO_PREAMBLE == <<"__None__">>
\* No event was answered with an Error by its handler yet.
NO_ERROR == [sid |-> "", ev |-> "", code |-> ""]
\* CLIENT_INDEX.get(client_id) is None.
NO_SUB == [sid |-> "", mem |-> "", thread |-> ""]

VARIABLES
    sessions,       \* _sessions: the sids registered
    used_sids,      \* sids that connected once (a sid is never reused)
    agents,         \* AGENTS: the names of the presets loaded at startup
    max_context_tokens, \* ThreadWindowConfig.max_context_tokens of the strategy registered
    cancel,         \* SessionState.cancel_event, per sid
    current_task,   \* SessionState.current_task, per sid: a run id, 0 for None
    lock_owner,     \* SessionState.lock, per sid: the request holding it, 0 if free
    lock_waiters,   \* SessionState.lock, per sid: the requests waiting, FIFO
    reqs,           \* the Chat / transcript events issued, with the run each started
    waited,         \* runs some Interrupt / disconnect awaits with wait_for
    store,          \* ThreadWindowMemory._store
    idle,           \* WorkerPool._queue: the idle workers, FIFO
    getters,        \* WorkerPool._queue._getters: runs blocked in acquire, FIFO
    woken,          \* runs whose getter future was resolved and that have not run yet
    tts_index,      \* CLIENT_TTS_INDEX, in insertion order
    client_index,   \* CLIENT_INDEX: the STT subscription of a client id
    closing,        \* sids whose disconnect handler awaits the run
    stt,            \* the STTConnection of the stt_url and the rooms upstream
    stt_ops,        \* JoinSTT / LeaveSTT handlers suspended on the link, per sid and client id
    cleanup,        \* per sid: the subscriptions the loop of disconnect has still to drop
    rejected        \* the last Error a handler answered a malformed event with

vars == <<sessions, used_sids, agents, max_context_tokens, cancel, current_task, lock_owner, lock_waiters, reqs,
          waited, store, idle, getters, woken, tts_index, client_index, closing,
          stt, stt_ops, cleanup, rejected>>

\* --------------------------------------------------------------- records
\* An event a run emits to its session (sio.emit with its runId).
Sio(ev, chunk) ==
    [ch |-> "sio", ev |-> ev, cid |-> "", chunk |-> chunk, final |-> FALSE]

\* A call a run makes on the TTS manager (the emit TTSManager issues for it).
Tts(ev, cid, chunk, final) ==
    [ch |-> "tts", ev |-> ev, cid |-> cid, chunk |-> chunk, final |-> final]

TERMINALS == {"ChatDone", "Interrupted", "Error"}
MSG_TIMEOUT == <<"Timeout after 1s">>
MSG_ERROR == <<"str(e)">>

Last(q) == q[Len(q)]

\* "".join(assistant_out)
RECURSIVE Join(_)
Join(out) == IF out = <<>> THEN <<>> ELSE Head(out) \o Join(Tail(out))

\* The part of the state the run orchestrator reads and writes, as one value.
Cur ==
    [reqs |-> reqs, store |-> store, idle |-> idle, getters |-> getters, woken |-> woken,
     cancel |-> cancel, current_task |-> current_task,
     waited |-> waited, tts_index |-> tts_index, tokens |-> max_context_tokens]

Commit(s) ==
    /\ reqs' = s.reqs
    /\ store' = s.store
    /\ idle' = s.idle
    /\ getters' = s.getters
    /\ woken' = s.woken
    /\ cancel' = s.cancel
    /\ current_task' = s.current_task
    /\ waited' = s.waited
    /\ tts_index' = s.tts_index

RECURSIVE SeqRemove(_, _)
SeqRemove(q, x) ==
    IF q = <<>> THEN <<>>
    ELSE IF Head(q) = x THEN SeqRemove(Tail(q), x)
    ELSE <<Head(q)>> \o SeqRemove(Tail(q), x)

\* ------------------------------------------------------------- requests
\* A Chat event or STT transcript that reached the run orchestrator, and the run
\* it started. The request's index in reqs stands for the uuid4 run id.
NewReq(sid, mem, thread) ==
    [sid |-> sid, mem |-> mem, thread |-> thread,
     hpc |-> "new",     \* position of the handler coroutine
     code |-> "",       \* the Error code the orchestrator answered with, "" if none
     tts |-> "",        \* client_id of the closure (tts_enabled iff not "")
     rpc |-> "none",    \* position of the runner task
     exc |-> "",        \* exception propagating through the runner
     worker |-> 0,      \* the Worker rented, 0 if none
     pre |-> NO_PREAMBLE,      \* preamble of the runner
     payload |-> NO_PREAMBLE,  \* the user message the engine builds its prompt from
     out |-> <<>>,      \* assistant_out
     trace |-> <<>>,    \* what the run emitted: sio events with its runId, TTS calls
     nterm |-> 0,       \* once the task is done: the terminal events it emitted
     xpc |-> "start",   \* position of the Router task dispatched for the input
     xworker |-> 0,     \* the Worker the Router task rented, 0 if none
     xres |-> <<>>,     \* the RouterResults emitted, in order: "ok", "ERROR"
     ppc |-> "none",    \* position of the producer thread
     pworker |-> 0,     \* the Worker whose engine the producer thread drives
     nparts |-> 0,      \* parts the model has streamed
     gen |-> <<>>,      \* the deltas _sync_stream yielded, in order
     q |-> <<>>]        \* the handoff buffer

\* CLIENT_TTS_INDEX lookup of main.py: the first client id bound to the sid.
RECURSIVE BoundClient(_, _)
BoundClient(index, sid) ==
    IF index = <<>> THEN ""
    ELSE IF Head(index).sid = sid THEN Head(index).cid
    ELSE BoundClient(Tail(index), sid)

Emit(s, r, ev, chunk) ==
    [s EXCEPT !.reqs[r].trace = Append(@, Sio(ev, chunk))]

\* TTSManager.send_text_chunk / stop_generation for the run's client id. The
\* callers swallow a failure of the upstream link.
TtsCall(s, r, ev, chunk, final) ==
    [s EXCEPT !.reqs[r].trace = Append(@, Tts(ev, s.reqs[r].tts, chunk, final))]

\* asyncio.Queue.put_nowait of the pool: enqueue, wake the first getter.
PutNowait(s, w) ==
    IF s.getters = <<>> THEN [s EXCEPT !.idle = Append(@, w)]
    ELSE [s EXCEPT !.idle = Append(@, w),
                   !.getters = Tail(@),
                   !.woken = @ \cup {Head(s.getters)}]

\* Exit of `async with POOL.acquire()`.
ReleaseWorker(s, r) ==
    IF s.reqs[r].worker = 0 THEN s
    ELSE PutNowait([s EXCEPT !.reqs[r].worker = 0], s.reqs[r].worker)

IsTerminal(e) == e.ch = "sio" /\ e.ev \in TERMINALS

TerminalsOf(trace) == SelectSeq(trace, IsTerminal)

\* Variant of Finish: the task ends and the session keeps its handle.
Finish_KeepsHandle(s, r) ==
    [s EXCEPT !.reqs[r].rpc = "done",
              !.reqs[r].exc = "",
              !.reqs[r].out = <<>>,
              !.reqs[r].pre = NO_PREAMBLE,
              !.reqs[r].payload = NO_PREAMBLE,
              !.reqs[r].q = <<>>,
              !.reqs[r].gen = <<>>,
              !.reqs[r].nparts = 0,
              !.reqs[r].nterm = Len(TerminalsOf(s.reqs[r].trace)),
              !.reqs[r].trace = <<>>,
              !.waited = @ \ {r}]

\* finally: state.current_task = None; the task is done. What the run emitted
\* is kept as a summary from here on, and the handoff buffer, which has no
\* reader any more, is no longer tracked.
Finish(s, r) ==
    [s EXCEPT !.current_task[s.reqs[r].sid] = 0,
              !.reqs[r].rpc = "done",
              !.reqs[r].exc = "",
              !.reqs[r].out = <<>>,
              !.reqs[r].pre = NO_PREAMBLE,
              !.reqs[r].payload = NO_PREAMBLE,
              !.reqs[r].q = <<>>,
              !.reqs[r].gen = <<>>,
              !.reqs[r].nparts = 0,
              !.reqs[r].nterm = Len(TerminalsOf(s.reqs[r].trace)),
              !.reqs[r].trace = <<>>,
              !.waited = @ \ {r}]

\* The terminal sio.emit of the runner; the runner awaits it.
Terminal(s, r, ev, msg) ==
    [Emit(s, r, ev, msg) EXCEPT !.reqs[r].rpc = "final", !.reqs[r].exc = ""]

\* Variant of StopThenTerminal: the terminal event without the TTS stop.
StopThenTerminal_NoStop(s, r, pc, ev, msg) == Terminal(s, r, ev, msg)

\* _tts_safe_stop followed by the terminal emit; the stop is awaited at pc.
StopThenTerminal(s, r, pc, ev, msg) ==
    IF s.reqs[r].tts # ""
    THEN [TtsCall(s, r, "stop_generation", <<>>, FALSE) EXCEPT
            !.reqs[r].rpc = pc, !.reqs[r].exc = ""]
    ELSE Terminal(s, r, ev, msg)

\* on_assistant_message, then ChatDone.
Success(s, r) ==
    LET rq == s.reqs[r]
        s1 == IF rq.mem # "none" /\ rq.thread # ""
              THEN [s EXCEPT !.store[rq.thread] =
                        Append(@, [role |-> "assistant", content |-> Join(rq.out),
                                   by |-> r])]
              ELSE s
    IN  Terminal(s1, r, "ChatDone", <<>>)

\* Variant of AfterStream: success goes to ChatDone without the final flush.
AfterStream_NoFlush(s, r) ==
    LET s1 == ReleaseWorker(s, r)
    IN  IF s1.cancel[s1.reqs[r].sid]
        THEN StopThenTerminal(s1, r, "stop_int", "Interrupted", <<>>)
        ELSE Success(s1, r)

\* After the `async with` block ended normally: lines 473-482.
AfterStream(s, r) ==
    LET s1 == ReleaseWorker(s, r)
    IN  IF s1.cancel[s1.reqs[r].sid]
        THEN StopThenTerminal(s1, r, "stop_int", "Interrupted", <<>>)
        ELSE IF s1.reqs[r].tts # ""
             THEN [TtsCall(s1, r, "tts_text_chunk", <<>>, TRUE) EXCEPT
                     !.reqs[r].rpc = "flush"]
             ELSE Success(s1, r)

\* Variant of ExcPath: a failed run persists the partial assistant output.
ExcPath_KeepsPartial(s, r, exc) ==
    LET s1 == ReleaseWorker(s, r)
        rq == s.reqs[r]
        s2 == IF rq.mem # "none" /\ rq.thread # ""
              THEN [s1 EXCEPT !.store[rq.thread] =
                        Append(@, [role |-> "assistant", content |-> Join(rq.out),
                                   by |-> r])]
              ELSE s1
    IN  CASE exc = "timeout" ->
                StopThenTerminal([s2 EXCEPT !.cancel[s2.reqs[r].sid] = TRUE],
                                 r, "stop_to", "Error", MSG_TIMEOUT)
          [] exc = "error" ->
                StopThenTerminal(s2, r, "stop_err", "Error", MSG_ERROR)
          [] OTHER -> Finish(s1, r)

\* Variant of ExcPath: the worker is handed back on the normal exit only.
ExcPath_NoRelease(s, r, exc) ==
    CASE exc = "timeout" ->
            StopThenTerminal([s EXCEPT !.cancel[s.reqs[r].sid] = TRUE],
                             r, "stop_to", "Error", MSG_TIMEOUT)
      [] exc = "error" ->
            StopThenTerminal(s, r, "stop_err", "Error", MSG_ERROR)
      [] OTHER -> Finish(s, r)

\* An exception leaves the try block: lines 484-494.
ExcPath(s, r, exc) ==
    LET s1 == ReleaseWorker(s, r)
    IN  CASE exc = "timeout" ->
                StopThenTerminal([s1 EXCEPT !.cancel[s1.reqs[r].sid] = TRUE],
                                 r, "stop_to", "Error", MSG_TIMEOUT)
          [] exc = "error" ->
                StopThenTerminal(s1, r, "stop_err", "Error", MSG_ERROR)
          [] OTHER -> Finish(s1, r)

\* Variant of ConsumeNext: the consumer yields without polling the cancel flag.
ConsumeNext_NoPoll(s, r) ==
    LET rq == s.reqs[r]
    IN  IF rq.q = <<>> THEN [s EXCEPT !.reqs[r].rpc = "get"]
        ELSE LET item == Head(rq.q)
                 s1 == [s EXCEPT !.reqs[r].q = Tail(@)]
             IN  CASE item = Q_NONE -> [s1 EXCEPT !.reqs[r].rpc = "grace"]
                   [] item = Q_ERROR ->
                        [s1 EXCEPT !.reqs[r].rpc = "grace", !.reqs[r].exc = "error"]
                   [] OTHER ->
                        [Emit([s1 EXCEPT !.reqs[r].out = Append(@, item)],
                              r, "ChatChunk", item)
                            EXCEPT !.reqs[r].rpc = "chunk"]

\* Variant of ConsumeNext: the newest item of the buffer is taken first.
ConsumeNext_Lifo(s, r) ==
    LET rq == s.reqs[r]
    IN  IF rq.q = <<>> THEN [s EXCEPT !.reqs[r].rpc = "get"]
        ELSE LET item == Last(rq.q)
                 s1 == [s EXCEPT !.reqs[r].q = SubSeq(@, 1, Len(@) - 1)]
             IN  CASE item = Q_NONE -> [s1 EXCEPT !.reqs[r].rpc = "grace"]
                   [] item = Q_ERROR ->
                        [s1 EXCEPT !.reqs[r].rpc = "grace", !.reqs[r].exc = "error"]
                   [] OTHER ->
                        IF s1.cancel[rq.sid] THEN [s1 EXCEPT !.reqs[r].rpc = "grace"]
                        ELSE [Emit([s1 EXCEPT !.reqs[r].out = Append(@, item)],
                                   r, "ChatChunk", item)
                                EXCEPT !.reqs[r].rpc = "chunk"]

\* `item = await q.get()` of generate_stream and what follows up to the next
\* suspension: lines 218-226 of llm_engine.py, 462-464 of main.py.
ConsumeNext(s, r) ==
    LET rq == s.reqs[r]
    IN  IF rq.q = <<>> THEN [s EXCEPT !.reqs[r].rpc = "get"]
        ELSE LET item == Head(rq.q)
                 s1 == [s EXCEPT !.reqs[r].q = Tail(@)]
             IN  CASE item = Q_NONE -> [s1 EXCEPT !.reqs[r].rpc = "grace"]
                   [] item = Q_ERROR ->
                        [s1 EXCEPT !.reqs[r].rpc = "grace", !.reqs[r].exc = "error"]
                   [] OTHER ->
                        IF s1.cancel[rq.sid] THEN [s1 EXCEPT !.reqs[r].rpc = "grace"]
                        ELSE [Emit([s1 EXCEPT !.reqs[r].out = Append(@, item)],
                                   r, "ChatChunk", item)
                                EXCEPT !.reqs[r].rpc = "chunk"]

\* ----------------------------------------------------------------- memory
Max(a, b) == IF a >= b THEN a ELSE b

Min(a, b) == IF a <= b THEN a ELSE b

\* Variant of CharBudgetFromTokens: tokens * 4, without the floor of 64.
CharBudgetFromTokens_NoFloor(tokens) == tokens * CHARS_PER_TOKEN

\* _char_budget_from_tokens: memory.py 37-40.
CharBudgetFromTokens(tokens) == Max(MIN_CHAR_BUDGET, tokens * CHARS_PER_TOKEN)

\* m['role'].upper()
RoleUpper(role) ==
    IF role = "user" THEN <<"U", "S", "E", "R">>
    ELSE <<"A", "S", "S", "I", "S", "T", "A", "N", "T">>

\* "\n".join(f"{m['role'].upper()}: {m['content']}" for m in msgs): line 74.
RECURSIVE TranscriptOf(_)
TranscriptOf(msgs) ==
    IF msgs = <<>> THEN <<>>
    ELSE LET line == RoleUpper(Head(msgs).role) \o <<":", " ">> \o Head(msgs).content
         IN  IF Tail(msgs) = <<>> THEN line
             ELSE line \o <<"\n">> \o TranscriptOf(Tail(msgs))

\* s[start:] of Python: a negative start counts from the end, -0 is 0.
SliceFrom(s, start) ==
    LET from == IF start < 0 THEN Max(Len(s) + start, 0) ELSE Min(start, Len(s))
    IN  SubSeq(s, from + 1, Len(s))

\* ThreadWindowMemory.preamble: memory.py 66-82.
Preamble(msgs, tokens) ==
    IF msgs = <<>> THEN NO_PREAMBLE
    ELSE IF Len(TranscriptOf(msgs)) <= CharBudgetFromTokens(tokens) THEN TranscriptOf(msgs)
    ELSE SliceFrom(TranscriptOf(msgs), -CharBudgetFromTokens(tokens))

\* worker.engine.generate_stream(text, cancel=..., system_prompt_path=..., ...):
\* binds tells whether the engine accepts the call's keyword arguments. When it
\* does, the first __anext__ starts the producer thread and waits on the buffer;
\* _sync_stream makes its prompt argument the user message (lines 157-161).
EngineCall(s, r, binds) ==
    IF binds THEN [s EXCEPT !.reqs[r].ppc = "gen", !.reqs[r].rpc = "get",
                            !.reqs[r].pworker = s.reqs[r].worker,
                            !.reqs[r].payload = <<"hi">>]
    ELSE ExcPath(s, r, "error")

\* WorkerPool.acquire: queue.get() returns at once when a worker is idle.
Acquire(s, r, binds) ==
    IF s.idle # <<>>
    THEN EngineCall([s EXCEPT !.idle = Tail(@), !.reqs[r].worker = Head(s.idle)],
                    r, binds)
    ELSE [s EXCEPT !.getters = Append(@, r), !.reqs[r].rpc = "acquire"]

\* Variant of RunnerBody: the thread is a rolling window, the oldest entry
\* leaves when a user turn is recorded on a thread that holds some already.
RunnerBody_Rolling(s, r, binds) ==
    LET rq == s.reqs[r]
        s1 == IF rq.mem # "none" /\ rq.thread # ""
              THEN [s EXCEPT !.reqs[r].pre = Preamble(s.store[rq.thread], s.tokens),
                             !.store[rq.thread] =
                        Append(IF @ = <<>> THEN @ ELSE Tail(@),
                               [role |-> "user", content |-> <<"hi">>, by |-> r])]
              ELSE s
    IN  Acquire(s1, r, binds)

\* preamble + on_user_message, then the pool: lines 446-453.
RunnerBody(s, r, binds) ==
    LET rq == s.reqs[r]
        s1 == IF rq.mem # "none" /\ rq.thread # ""
              THEN [s EXCEPT !.reqs[r].pre = Preamble(s.store[rq.thread], s.tokens),
                             !.store[rq.thread] =
                        Append(@, [role |-> "user", content |-> <<"hi">>, by |-> r])]
              ELSE s
    IN  Acquire(s1, r, binds)

\* ------------------------------------------------------------------ Init
\* Everything but the thread storage and its configuration.
InitRest ==
    /\ sessions = {}
    /\ used_sids = {}
    /\ agents \in AGENT_SETS
    /\ cancel = [sid \in SIDS |-> FALSE]
    /\ current_task = [sid \in SIDS |-> 0]
    /\ lock_owner = [sid \in SIDS |-> 0]
    /\ lock_waiters = [sid \in SIDS |-> <<>>]
    /\ reqs = <<>>
    /\ waited = {}
    /\ idle = [i \in 1..POOL_SIZE |-> i]
    /\ getters = <<>>
    /\ woken = {}
    /\ tts_index = <<>>
    /\ client_index = [cid \in STT_CLIENTS |-> NO_SUB]
    /\ closing = {}
    /\ stt = [connected |-> FALSE,   \* _connected / _client.connected
              wanted |-> {},         \* _wanted_rooms
              rooms |-> {},          \* upstream: the rooms this connection joined
              resub |-> <<>>,        \* connect handler: the snapshot left, head in flight
              resent |-> [c \in STT_CLIENTS |-> 0],  \* its subscribe emits, this connection
              drops |-> 0]
    /\ stt_ops = [p \in SIDS \X STT_CLIENTS |-> ""]
    /\ cleanup = [sid \in SIDS |-> <<>>]
    /\ rejected = NO_ERROR

Init ==
    /\ InitRest
    /\ store = [t \in THREADS |-> <<>>]
    /\ max_context_tokens = DEFAULT_MAX_CONTEXT_TOKENS

\* Turns recorded by earlier runs (by = 0): an assistant turn follows the user
\* turn of its run.
Turns0 == {[role |-> ro, content |-> c, by |-> 0] : ro \in {"user", "assistant"}, c \in CONTENTS}

Threads0 ==
    {th \in UNION {[1..n -> Turns0] : n \in 0..MaxTurns} :
        \A i \in 1..Len(th) :
            Cardinality({j \in 1..i : th[j].role = "assistant"})
                <= Cardinality({j \in 1..i : th[j].role = "user"})}

\* The server with threads that hold turns already and any configured window.
InitPre ==
    /\ InitRest
    /\ store \in [THREADS -> Threads0]
    /\ max_context_tokens \in TOKENS

\* ------------------------------------------------------- session registry
\* connect(sid): _sessions[sid] = SessionState()
Connect(sid) ==
    /\ sid \notin used_sids
    /\ sessions' = sessions \cup {sid}
    /\ used_sids' = used_sids \cup {sid}
    /\ UNCHANGED <<agents, max_context_tokens, rejected, cancel, current_task, lock_owner, lock_waiters, reqs, waited,
                   store, idle, getters, woken, tts_index, client_index, closing,
                   stt, stt_ops, cleanup>>

\* asyncio.Lock.release: the first waiter is woken and nobody can overtake it.
LockRelease(sid) ==
    /\ lock_owner' = [lock_owner EXCEPT ![sid] =
            IF lock_waiters[sid] = <<>> THEN 0 ELSE Head(lock_waiters[sid])]
    /\ lock_waiters' = [lock_waiters EXCEPT ![sid] =
            IF @ = <<>> THEN <<>> ELSE Tail(@)]

TaskDone(s, t) == s.reqs[t].rpc = "done"

Busy(s, sid) == s.current_task[sid] # 0 /\ ~TaskDone(s, s.current_task[sid])

\* Variant of LockedSection: no second busy check under the lock.
LockedSection_NoRecheck(r) ==
    /\ cancel' = [cancel EXCEPT ![reqs[r].sid] = FALSE]
    /\ reqs' = Emit([Cur EXCEPT !.reqs[r].hpc = "runstarted"], r, "RunStarted", <<>>).reqs
    /\ UNCHANGED <<lock_owner, lock_waiters>>

\* The body of `async with state.lock` up to its first await: lines 395-401.
\* r holds the lock.
LockedSection(r) ==
    LET sid == reqs[r].sid
    IN  IF Busy(Cur, sid)
        THEN /\ reqs' = [reqs EXCEPT ![r].code = "BUSY", ![r].hpc = "done"]
             /\ LockRelease(sid)
             /\ UNCHANGED cancel
        ELSE /\ cancel' = [cancel EXCEPT ![sid] = FALSE]
             /\ reqs' = Emit([Cur EXCEPT !.reqs[r].hpc = "runstarted"],
                             r, "RunStarted", <<>>).reqs
             /\ UNCHANGED <<lock_owner, lock_waiters>>

\* Variant of RunText: the busy guard is missing on the way to the lock.
RunText_NoBusyGuard(sid, mem, thread) ==
    LET r == Len(reqs) + 1
        rq == NewReq(sid, mem, thread)
        Reject(code) ==
            /\ reqs' = Append(reqs, [rq EXCEPT !.code = code, !.hpc = "done"])
            /\ UNCHANGED <<cancel, lock_owner, lock_waiters>>
    IN  IF sid \notin sessions THEN Reject("NO_SESSION")
        ELSE IF mem # "none" /\ thread = "" THEN Reject("MEM_THREAD_REQUIRED")
        ELSE IF lock_owner[sid] # 0
        THEN /\ reqs' = Append(reqs, [rq EXCEPT !.hpc = "lockwait"])
             /\ lock_waiters' = [lock_waiters EXCEPT ![sid] = Append(@, r)]
             /\ UNCHANGED <<cancel, lock_owner>>
        ELSE /\ cancel' = [cancel EXCEPT ![sid] = FALSE]
             /\ lock_owner' = [lock_owner EXCEPT ![sid] = r]
             /\ reqs' = Append(reqs,
                    [rq EXCEPT !.hpc = "runstarted",
                               !.trace = <<Sio("RunStarted", <<>>)>>])
             /\ UNCHANGED lock_waiters

\* _run_text_with_preset_and_mem from its entry to its first suspension:
\* lines 370-401. The request becomes reqs[Len(reqs) + 1].
RunText(sid, mem, thread) ==
    LET r == Len(reqs) + 1
        rq == NewReq(sid, mem, thread)
        Reject(code) ==
            /\ reqs' = Append(reqs, [rq EXCEPT !.code = code, !.hpc = "done"])
            /\ UNCHANGED <<cancel, lock_owner, lock_waiters>>
    IN  IF sid \notin sessions THEN Reject("NO_SESSION")
        ELSE IF mem # "none" /\ thread = "" THEN Reject("MEM_THREAD_REQUIRED")
        ELSE IF Busy(Cur, sid) THEN Reject("BUSY")
        ELSE IF lock_owner[sid] # 0
        THEN /\ reqs' = Append(reqs, [rq EXCEPT !.hpc = "lockwait"])
             /\ lock_waiters' = [lock_waiters EXCEPT ![sid] = Append(@, r)]
             /\ UNCHANGED <<cancel, lock_owner>>
        ELSE /\ cancel' = [cancel EXCEPT ![sid] = FALSE]
             /\ lock_owner' = [lock_owner EXCEPT ![sid] = r]
             /\ reqs' = Append(reqs,
                    [rq EXCEPT !.hpc = "runstarted",
                               !.trace = <<Sio("RunStarted", <<>>)>>])
             /\ UNCHANGED lock_waiters

\* What the gateway handlers leave alone.
HandlerFrame ==
    UNCHANGED <<sessions, used_sids, agents, max_context_tokens, rejected, current_task, waited, store, idle, getters, woken,
                tts_index, client_index, closing,
                stt, stt_ops, cleanup>>

\* ROUTER.dispatch raises: _preset() finds no preset called router
\* (router_dispatch.py 24-28, 38), before any task is created. Chat lets the
\* ValueError out of the handler (hpc = "raised"); _on_stt_transcript catches it
\* and emits Error with `code`. The run orchestrator is not entered.
DispatchRaises(sid, mem, thread, code) ==
    /\ reqs' = Append(reqs, [NewReq(sid, mem, thread) EXCEPT
                                !.xpc = "none", !.code = code,
                                !.hpc = IF code = "" THEN "raised" ELSE "done"])
    /\ UNCHANGED <<cancel, lock_owner, lock_waiters>>

\* Chat(sid, data) with a valid agent and a non-empty text: lines 503-527.
\* ROUTER.dispatch schedules the Router task (xpc = "start"), then the run
\* orchestrator is entered.
Chat(sid, mem, thread) ==
    /\ sid \in sessions
    /\ IF "router" \in agents THEN RunText(sid, mem, thread)
       ELSE DispatchRaises(sid, mem, thread, "")
    /\ HandlerFrame

\* _on_stt_transcript(client_id, ...) for a subscribed client id: lines 210-245.
\* The memory mode is the policy of the agent stored with the subscription.
Transcript(cid) ==
    /\ client_index[cid] # NO_SUB
    /\ IF "router" \in agents
       THEN RunText(client_index[cid].sid, client_index[cid].mem, client_index[cid].thread)
       ELSE DispatchRaises(client_index[cid].sid, client_index[cid].mem,
                           client_index[cid].thread, "STT_ROUTE_ERROR")
    /\ HandlerFrame

\* The handler got the session lock it waited for.
ChatLockAcquired(r) ==
    /\ r \in DOMAIN reqs
    /\ reqs[r].hpc = "lockwait"
    /\ lock_owner[reqs[r].sid] = r
    /\ LockedSection(r)
    /\ HandlerFrame

\* After `await sio.emit("RunStarted")`: the TTS lookup, the closures and
\* create_task(runner()), lines 403-496; leaving the `async with` frees the lock.
ChatCreateTask(r) ==
    /\ r \in DOMAIN reqs
    /\ reqs[r].hpc = "runstarted"
    /\ reqs' = [reqs EXCEPT ![r].hpc = "done",
                            ![r].tts = BoundClient(tts_index, reqs[r].sid),
                            ![r].rpc = "start"]
    /\ current_task' = [current_task EXCEPT ![reqs[r].sid] = r]
    /\ LockRelease(reqs[r].sid)
    /\ UNCHANGED <<sessions, used_sids, agents, max_context_tokens, rejected, cancel, waited, store, idle, getters, woken,
                   tts_index, client_index, closing,
                stt, stt_ops, cleanup>>

\* Interrupt(sid): lines 530-541. The handler then awaits the task for 2 s and
\* emits Interrupted with runId None, which belongs to no run.
Interrupt(sid) ==
    /\ sid \in sessions
    /\ cancel' = [cancel EXCEPT ![sid] = TRUE]
    /\ waited' = IF current_task[sid] # 0 THEN waited \cup {current_task[sid]}
                 ELSE waited
    /\ UNCHANGED <<sessions, used_sids, agents, max_context_tokens, rejected, current_task, lock_owner, lock_waiters, reqs,
                   store, idle, getters, woken, tts_index, client_index, closing,
                stt, stt_ops, cleanup>>

\* ------------------------------------------------------ payload validation
\* Variant of Reject: ROUTER.dispatch precedes the checks of the handler.
Reject_AfterDispatch(sid, ev, code) ==
    /\ rejected' = [sid |-> sid, ev |-> ev, code |-> code]
    /\ reqs' = Append(reqs, [NewReq(sid, "none", "") EXCEPT !.hpc = "done", !.code = code])
    /\ UNCHANGED <<sessions, used_sids, agents, max_context_tokens, cancel, current_task, lock_owner,
                   lock_waiters, waited, store, idle, getters, woken, tts_index,
                   client_index, closing, stt, stt_ops, cleanup>>

\* `return await sio.emit("Error", {"code": code, ...}, to=sid)` as the first
\* effect of a handler: main.py 507, 512, 516 (Chat), 561, 564, 574, 580 (JoinSTT).
Reject(sid, ev, code) ==
    /\ rejected' = [sid |-> sid, ev |-> ev, code |-> code]
    /\ UNCHANGED <<sessions, used_sids, agents, max_context_tokens, cancel, current_task, lock_owner,
                   lock_waiters, reqs, waited, store, idle, getters, woken, tts_index,
                   client_index, closing, stt, stt_ops, cleanup>>

\* The checks of Chat in their order, lines 505-516: the code of the Error, ""
\* when the payload passes. A payload that is no object has no agent.
ChatCode(sid, isdict, agent, text) ==
    IF sid \notin sessions THEN "NO_SESSION"
    ELSE IF ~isdict \/ agent \notin agents THEN "AGENT_INVALID"
    ELSE IF text = "" THEN "EMPTY"
    ELSE ""

\* The checks of JoinSTT in their order, lines 559-580.
JoinSTTCode(sid, isdict, cid, agent) ==
    IF sid \notin sessions THEN "NO_SESSION"
    ELSE IF ~isdict THEN "BAD_REQUEST"
    ELSE IF cid = "" \/ agent = "" THEN "MISSING_PARAMS"
    ELSE IF agent \notin agents THEN "AGENT_INVALID"
    ELSE ""

\* --------------------------------------------------------------- STT link
\* The orders in which a set or a dict snapshot can be iterated.
Orders(S) ==
    {q \in [1..Cardinality(S) -> S] : \A i, j \in 1..Cardinality(S) : q[i] = q[j] => i = j}

SttCur == [index |-> client_index, link |-> stt, ops |-> stt_ops, cleanup |-> cleanup]

SttCommit(b) ==
    /\ client_index' = b.index
    /\ stt' = b.link
    /\ stt_ops' = b.ops
    /\ cleanup' = b.cleanup

\* _client.emit("subscribe_transcripts") on the live link: upstream joins the room.
SendSubscribe(l, cid) == [l EXCEPT !.rooms = @ \cup {cid}]

\* _client.emit("unsubscribe_transcripts").
SendUnsubscribe(l, cid) == [l EXCEPT !.rooms = @ \ {cid}]

\* STTConnection.subscribe once ensure_connected returned: lines 86-87.
LinkSubscribe(l, cid) == SendSubscribe([l EXCEPT !.wanted = @ \cup {cid}], cid)

\* STTConnection.unsubscribe: lines 90-98.
LinkUnsubscribe(l, cid) ==
    LET l1 == [l EXCEPT !.wanted = @ \ {cid}]
    IN  IF l.connected THEN SendUnsubscribe(l1, cid) ELSE l1

\* One turn of the loop of the connect handler: the emit for the head of the
\* snapshot, lines 33-34.
Resubscribe(l) ==
    [SendSubscribe(l, Head(l.resub)) EXCEPT !.resent[Head(l.resub)] = @ + 1]

\* The connect handler up to its first await, lines 28-34: the flag is set, the
\* wanted rooms are listed in `order` and the first subscribe is emitted. The new
\* connection has joined no room upstream.
LinkConnect(l, order) ==
    LET l1 == [l EXCEPT !.connected = TRUE, !.resub = order, !.rooms = {},
                        !.resent = [c \in STT_CLIENTS |-> 0]]
    IN  IF order = <<>> THEN l1 ELSE Resubscribe(l1)

\* The emit of the connect handler returned: the next room. On a link that
\* dropped meanwhile every further emit raises and is swallowed (lines 36-37).
LinkResubNext(l) ==
    IF Tail(l.resub) = <<>> \/ ~l.connected THEN [l EXCEPT !.resub = <<>>]
    ELSE Resubscribe([l EXCEPT !.resub = Tail(@)])

\* The connect handler run to its end.
RECURSIVE LinkResubAll(_)
LinkResubAll(l) == IF l.resub = <<>> THEN l ELSE LinkResubAll(LinkResubNext(l))

\* The disconnect handler of the link, lines 44-47; the upstream server forgets
\* the rooms of the connection.
LinkDrop(l) == [l EXCEPT !.connected = FALSE, !.rooms = {}, !.drops = @ + 1]

\* ----------------------------------------------------------- STT handlers
Sub(sid, mem, thread) ==
    [sid |-> sid, mem |-> mem, thread |-> IF mem = "none" THEN "" ELSE thread]

Owned(index, sid) == {cid \in STT_CLIENTS : index[cid].sid = sid}

\* The places in the queue of the lock of ensure_connected, line 67.
LOCK_QUEUE == <<"join_lock1", "join_lock2", "join_lock3", "join_lock4">>

LockWaiters(ops) == {p \in DOMAIN ops : \E i \in DOMAIN LOCK_QUEUE : ops[p] = LOCK_QUEUE[i]}

\* A handler holds the lock: it is inside connect() or the wait for the event.
LockHeld(ops) == \E p \in DOMAIN ops : ops[p] \in {"join_connect", "join_woken"}

\* JoinSTT past the payload checks, lines 589-599, up to its first suspension:
\* the mapping is registered; on a live link ensure_connected returns at once
\* and subscribe() records the room and emits. On a link that is down the
\* handler takes the lock and connects, or queues behind the one that does.
JoinRegister(b, sid, cid, mem, thread) ==
    LET b1 == [b EXCEPT !.index[cid] = Sub(sid, mem, thread)]
    IN  IF b.link.connected
        THEN [b1 EXCEPT !.link = LinkSubscribe(@, cid), !.ops[<<sid, cid>>] = "join_emit"]
        ELSE IF LockHeld(b.ops) \/ LockWaiters(b.ops) # {}
        THEN [b1 EXCEPT !.ops[<<sid, cid>>] =
                            LOCK_QUEUE[Cardinality(LockWaiters(b.ops)) + 1]]
        ELSE [b1 EXCEPT !.ops[<<sid, cid>>] = "join_connect"]

\* The wait for the connect event returned, line 79: the handler is scheduled.
JoinWoken(b, sid, cid) == [b EXCEPT !.ops[<<sid, cid>>] = "join_woken"]

\* ensure_connected returned after the connect: lines 86-87.
JoinConnected(b, sid, cid) ==
    [b EXCEPT !.link = LinkSubscribe(@, cid), !.ops[<<sid, cid>>] = "join_emit"]

\* ensure_connected returned and the link dropped before the handler ran:
\* line 86 records the room, the emit of line 87 raises, lines 600-603 pop the
\* mapping and emit STT_CONNECT.
JoinEmitFailed(b, sid, cid) ==
    [b EXCEPT !.link.wanted = @ \cup {cid}, !.index[cid] = NO_SUB,
              !.ops[<<sid, cid>>] = ""]

\* The handler runs again after the wait: lines 86-87.
JoinResumed(b, sid, cid) ==
    IF b.link.connected THEN JoinConnected(b, sid, cid) ELSE JoinEmitFailed(b, sid, cid)

\* The head of the lock queue runs: every other waiter moves up; lines 68-69
\* return on a live link, else the handler connects.
JoinLocked(b, sid, cid) ==
    LET b1 == [b EXCEPT !.ops = [p \in DOMAIN b.ops |->
                    IF p \in LockWaiters(b.ops) /\ p # <<sid, cid>>
                    THEN LOCK_QUEUE[(CHOOSE i \in DOMAIN LOCK_QUEUE :
                                        b.ops[p] = LOCK_QUEUE[i]) - 1]
                    ELSE b.ops[p]]]
    IN  IF b.link.connected THEN JoinConnected(b1, sid, cid)
        ELSE [b1 EXCEPT !.ops[<<sid, cid>>] = "join_connect"]

\* ensure_connected raised: lines 600-603, the mapping is popped, STT_CONNECT.
JoinFailed(b, sid, cid) ==
    [b EXCEPT !.index[cid] = NO_SUB, !.ops[<<sid, cid>>] = ""]

\* Variant of JoinSubscribed: the mapping is registered once subscribe returned.
JoinSubscribed_Registers(b, sid, cid) ==
    [b EXCEPT !.index[cid] = Sub(sid, "none", ""), !.ops[<<sid, cid>>] = ""]

\* The subscribe emit returned: STTSubscribed, line 605.
JoinSubscribed(b, sid, cid) == [b EXCEPT !.ops[<<sid, cid>>] = ""]

\* Lines 619-620: the mapping is popped, STTUnsubscribed is emitted.
LeavePop(b, sid, cid) ==
    [b EXCEPT !.index[cid] = NO_SUB, !.ops[<<sid, cid>>] = ""]

\* LeaveSTT, lines 611-613: the handler returns unless the sid owns the mapping.
LeaveReturns(b, sid, cid) == b.index[cid] = NO_SUB \/ b.index[cid].sid # sid

\* Variant of LeaveUnsubscribe: no lookup, the handler always unsubscribes.
LeaveUnsubscribe_Always(b, sid, cid) ==
    LET b1 == [b EXCEPT !.link = LinkUnsubscribe(@, cid)]
    IN  IF b.link.connected THEN [b1 EXCEPT !.ops[<<sid, cid>>] = "leave_emit"]
        ELSE LeavePop(b1, sid, cid)

\* LeaveSTT, lines 608-616, up to its first suspension: unsubscribe() awaits its
\* emit on a live link.
LeaveUnsubscribe(b, sid, cid) ==
    IF LeaveReturns(b, sid, cid) THEN b
    ELSE LET b1 == [b EXCEPT !.link = LinkUnsubscribe(@, cid)]
         IN  IF b.link.connected THEN [b1 EXCEPT !.ops[<<sid, cid>>] = "leave_emit"]
             ELSE LeavePop(b1, sid, cid)

\* LeaveSTT run to its end.
LeaveWhole(b, sid, cid) ==
    LET b1 == LeaveUnsubscribe(b, sid, cid)
    IN  IF b1.ops[<<sid, cid>>] = "leave_emit" THEN LeavePop(b1, sid, cid) ELSE b1

\* JoinSTT run to its end with a link that answers: when the link is down the
\* connect handler runs first, listing the wanted rooms in `order`.
JoinWhole(b, sid, cid, mem, thread, order) ==
    LET b1 == JoinRegister(b, sid, cid, mem, thread)
    IN  JoinSubscribed(
            IF b.link.connected THEN b1
            ELSE JoinConnected([b1 EXCEPT !.link = LinkResubAll(LinkConnect(@, order))],
                               sid, cid),
            sid, cid)

\* The loop that ends disconnect, lines 297-304, from the head of what is left
\* of the snapshot to the next suspension: STT.unsubscribe, whose emit is awaited
\* on a live link, then CLIENT_INDEX.pop.
RECURSIVE CleanupLoop(_, _)
CleanupLoop(b, sid) ==
    IF b.cleanup[sid] = <<>> THEN b
    ELSE LET cid == Head(b.cleanup[sid])
             b1 == [b EXCEPT !.link = LinkUnsubscribe(@, cid)]
         IN  IF b.link.connected THEN b1
             ELSE CleanupLoop([b1 EXCEPT !.index[cid] = NO_SUB, !.cleanup[sid] = Tail(@)],
                              sid)

\* The emit of the unsubscribe returned: the pop, then the next subscription.
CleanupPop(b, sid) ==
    CleanupLoop([b EXCEPT !.index[Head(b.cleanup[sid])] = NO_SUB,
                          !.cleanup[sid] = Tail(@)], sid)

RECURSIVE CleanupAll(_, _)
CleanupAll(b, sid) == IF b.cleanup[sid] = <<>> THEN b ELSE CleanupAll(CleanupPop(b, sid), sid)

\* list(CLIENT_INDEX.items()) filtered by the sid, in `order`; the loop runs to
\* its first suspension, or to its end when no emit suspends it (whole).
Cleanup(b, sid, order, whole) ==
    LET b1 == CleanupLoop([b EXCEPT !.cleanup[sid] = order], sid)
    IN  IF whole THEN CleanupAll(b1, sid) ELSE b1

\* disconnect(sid): lines 276-304. With a run in flight the handler awaits the
\* task for 1 s before it goes on to the subscriptions.
DisconnectBody(sid, whole) ==
    /\ sid \in sessions
    /\ sessions' = sessions \ {sid}
    /\ cancel' = [cancel EXCEPT ![sid] = TRUE]
    /\ IF current_task[sid] # 0
       THEN /\ waited' = waited \cup {current_task[sid]}
            /\ closing' = closing \cup {sid}
            /\ UNCHANGED <<client_index, stt, stt_ops, cleanup>>
       ELSE /\ \E order \in Orders(Owned(client_index, sid)) :
                    SttCommit(Cleanup(SttCur, sid, order, whole))
            /\ UNCHANGED <<waited, closing>>
    /\ UNCHANGED <<used_sids, agents, max_context_tokens, rejected, current_task, lock_owner, lock_waiters, reqs,
                   store, idle, getters, woken, tts_index>>

\* The task disconnect awaited is done, or was cancelled when the second passed;
\* the unsubscribe emits return without suspending the handler.
DisconnectCleanup(sid) ==
    /\ sid \in closing
    /\ \A r \in waited : reqs[r].sid # sid
    /\ closing' = closing \ {sid}
    /\ \E order \in Orders(Owned(client_index, sid)) :
            SttCommit(Cleanup(SttCur, sid, order, TRUE))
    /\ UNCHANGED <<sessions, used_sids, agents, max_context_tokens, rejected, cancel, current_task, lock_owner, lock_waiters,
                   reqs, waited, store, idle, getters, woken, tts_index>>

\* disconnect whose unsubscribe emits return without suspending the handler.
Disconnect(sid) == DisconnectBody(sid, TRUE)

\* disconnect, suspended in each unsubscribe emit.
DisconnectCall(sid) == DisconnectBody(sid, FALSE)

SttFrame ==
    UNCHANGED <<sessions, used_sids, agents, max_context_tokens, rejected, cancel, current_task, lock_owner, lock_waiters,
                reqs, waited, store, idle, getters, woken, tts_index, closing>>

\* An unsubscribe emit of the loop of disconnect returned.
DisconnectNext(sid) ==
    /\ cleanup[sid] # <<>>
    /\ SttCommit(CleanupPop(SttCur, sid))
    /\ SttFrame

\* ------------------------------------------------------------------- STT
\* The upstream server accepted a connection: the connect handler starts. The
\* client connects when a JoinSTT asks for the link and again after a drop.
SttConnect ==
    /\ ~stt.connected
    /\ stt.resub = <<>>
    /\ stt.drops > 0 \/ \E p \in DOMAIN stt_ops : stt_ops[p] = "join_connect"
    /\ \E order \in Orders(stt.wanted) : stt' = LinkConnect(stt, order)
    /\ UNCHANGED <<client_index, stt_ops, cleanup>>
    /\ SttFrame

\* An emit of the connect handler returned.
SttResubscribed ==
    /\ stt.resub # <<>>
    /\ stt' = LinkResubNext(stt)
    /\ UNCHANGED <<client_index, stt_ops, cleanup>>
    /\ SttFrame

\* The upstream link drops.
SttDrop ==
    /\ stt.connected
    /\ stt.drops < MaxDrops
    /\ stt' = LinkDrop(stt)
    /\ UNCHANGED <<client_index, stt_ops, cleanup>>
    /\ SttFrame

\* JoinSTT with a valid payload, lines 548-605, as one step: on a live link the
\* emit returns at once; otherwise the connect succeeds (ok), the connect handler
\* runs and the room is subscribed, or it fails and the mapping is popped again.
JoinSTT(sid, cid, mem, thread, ok) ==
    /\ sid \in sessions
    /\ mem # "none" => thread # ""
    /\ stt_ops[<<sid, cid>>] = ""
    /\ IF ok
       THEN \E order \in Orders(stt.wanted) :
                SttCommit(JoinWhole(SttCur, sid, cid, mem, thread, order))
       ELSE /\ ~stt.connected
            /\ SttCommit(JoinFailed(JoinRegister(SttCur, sid, cid, mem, thread), sid, cid))
    /\ SttFrame

\* LeaveSTT, lines 608-620, as one step.
LeaveSTT(sid, cid) ==
    /\ client_index[cid] # NO_SUB
    /\ client_index[cid].sid = sid
    /\ stt_ops[<<sid, cid>>] = ""
    /\ SttCommit(LeaveWhole(SttCur, sid, cid))
    /\ SttFrame

\* on_transcription, lines 49-61: upstream sends the transcripts of the rooms
\* the connection joined; one for a client id without a mapping is ignored.
OnTranscription(cid) ==
    /\ stt.connected
    /\ cid \in stt.rooms
    /\ Transcript(cid)

\* JoinSTT arrives and runs to its first suspension.
JoinSTTCall(sid, cid, mem, thread) ==
    /\ sid \in sessions
    /\ mem # "none" => thread # ""
    /\ stt_ops[<<sid, cid>>] = ""
    /\ SttCommit(JoinRegister(SttCur, sid, cid, mem, thread))
    /\ SttFrame

\* The connect event is set and wakes the JoinSTT that waits for it.
JoinSTTWoken(sid, cid) ==
    /\ stt_ops[<<sid, cid>>] = "join_connect"
    /\ stt.connected
    /\ SttCommit(JoinWoken(SttCur, sid, cid))
    /\ SttFrame

\* ensure_connected of a JoinSTT returns and subscribe() goes on.
JoinSTTConnected(sid, cid) ==
    /\ stt_ops[<<sid, cid>>] = "join_woken"
    /\ SttCommit(JoinResumed(SttCur, sid, cid))
    /\ SttFrame

\* A JoinSTT that queued for the lock of ensure_connected gets it.
JoinSTTLocked(sid, cid) ==
    /\ stt_ops[<<sid, cid>>] = LOCK_QUEUE[1]
    /\ ~LockHeld(stt_ops)
    /\ SttCommit(JoinLocked(SttCur, sid, cid))
    /\ SttFrame

\* ensure_connected of a JoinSTT raises: the connect failed or timed out.
JoinSTTFailed(sid, cid) ==
    /\ stt_ops[<<sid, cid>>] = "join_connect"
    /\ ~stt.connected
    /\ SttCommit(JoinFailed(SttCur, sid, cid))
    /\ SttFrame

\* The subscribe emit of a JoinSTT returned.
JoinSTTSubscribed(sid, cid) ==
    /\ stt_ops[<<sid, cid>>] = "join_emit"
    /\ SttCommit(JoinSubscribed(SttCur, sid, cid))
    /\ SttFrame

\* LeaveSTT arrives from a registered or an unregistered sid (the handler does
\* not look the session up) and runs to its first suspension.
LeaveSTTCall(sid, cid) ==
    /\ sid \in used_sids
    /\ stt_ops[<<sid, cid>>] = ""
    /\ SttCommit(LeaveUnsubscribe(SttCur, sid, cid))
    /\ SttFrame

\* The unsubscribe emit of a LeaveSTT returned.
LeaveSTTUnsubscribed(sid, cid) ==
    /\ stt_ops[<<sid, cid>>] = "leave_emit"
    /\ SttCommit(LeavePop(SttCur, sid, cid))
    /\ SttFrame

\* A Chat event with any payload from a sid that connected once: lines 503-527.
ChatEvent(sid, isdict, agent, text) ==
    /\ sid \in used_sids
    /\ IF ChatCode(sid, isdict, agent, text) # ""
       THEN Reject(sid, "Chat", ChatCode(sid, isdict, agent, text))
       ELSE Chat(sid, "none", "")

\* A JoinSTT event with any payload: lines 548-605. The preset named has no
\* memory policy.
JoinSTTEvent(sid, isdict, cid, agent) ==
    /\ sid \in used_sids
    /\ IF JoinSTTCode(sid, isdict, cid, agent) # ""
       THEN Reject(sid, "JoinSTT", JoinSTTCode(sid, isdict, cid, agent))
       ELSE \E ok \in BOOLEAN : JoinSTT(sid, cid, "none", "", ok)

\* ------------------------------------------------------------------- TTS
\* dict assignment: an existing key keeps its place.
RECURSIVE IndexSet(_, _, _)
IndexSet(index, cid, sid) ==
    IF index = <<>> THEN <<[cid |-> cid, sid |-> sid]>>
    ELSE IF Head(index).cid = cid THEN <<[cid |-> cid, sid |-> sid]>> \o Tail(index)
    ELSE <<Head(index)>> \o IndexSet(Tail(index), cid, sid)

RECURSIVE IndexPop(_, _)
IndexPop(index, cid) ==
    IF index = <<>> THEN <<>>
    ELSE IF Head(index).cid = cid THEN Tail(index)
    ELSE <<Head(index)>> \o IndexPop(Tail(index), cid)

\* join_tts: lines 631-647. Events arrive only from a connected sid.
JoinTTS(sid, cid) ==
    /\ sid \in sessions
    /\ tts_index' = IndexSet(tts_index, cid, sid)
    /\ UNCHANGED <<sessions, used_sids, agents, max_context_tokens, rejected, cancel, current_task, lock_owner, lock_waiters,
                   reqs, waited, store, idle, getters, woken, client_index, closing,
                stt, stt_ops, cleanup>>

\* leave_tts: lines 649-656.
LeaveTTS(sid, cid) ==
    /\ sid \in sessions
    /\ tts_index' = IndexPop(tts_index, cid)
    /\ UNCHANGED <<sessions, used_sids, agents, max_context_tokens, rejected, cancel, current_task, lock_owner, lock_waiters,
                   reqs, waited, store, idle, getters, woken, client_index, closing,
                stt, stt_ops, cleanup>>

\* ---------------------------------------------------------------- runner
RunnerFrame ==
    UNCHANGED <<sessions, used_sids, agents, max_context_tokens, rejected, lock_owner, lock_waiters, client_index, closing,
                stt, stt_ops, cleanup>>

At(r, pc) == r \in DOMAIN reqs /\ reqs[r].rpc = pc

\* The task starts: `await _tts_safe_stop()` (line 444), which returns without
\* suspending when the run has no TTS client. The Router task of the same input
\* was created first and the loop starts tasks in creation order.
RunnerStart(r, binds) ==
    /\ At(r, "start")
    /\ reqs[r].xpc # "start"
    /\ Commit(IF reqs[r].tts # ""
              THEN [TtsCall(Cur, r, "stop_generation", <<>>, FALSE) EXCEPT
                      !.reqs[r].rpc = "pre_stop"]
              ELSE RunnerBody(Cur, r, binds))
    /\ RunnerFrame

\* The proactive stop returned.
RunnerAfterPreStop(r, binds) ==
    /\ At(r, "pre_stop")
    /\ Commit(RunnerBody(Cur, r, binds))
    /\ RunnerFrame

\* queue.get() of the pool resumes: `while self.empty()` waits again when another
\* task took the worker in between.
RunnerAcquired(r, binds) ==
    /\ At(r, "acquire")
    /\ r \in woken
    /\ Commit(Acquire([Cur EXCEPT !.woken = @ \ {r}], r, binds))
    /\ RunnerFrame

\* `await q.get()` resumes: an item is in the buffer.
RunnerGet(r) ==
    /\ At(r, "get")
    /\ reqs[r].q # <<>>
    /\ Commit(ConsumeNext(Cur, r))
    /\ RunnerFrame

\* `await sio.emit("ChatChunk")` returned: _tts_send_chunk (lines 420-427, 466).
RunnerAfterChunk(r) ==
    /\ At(r, "chunk")
    /\ Commit(IF reqs[r].tts # ""
              THEN [TtsCall(Cur, r, "tts_text_chunk", Last(reqs[r].out), FALSE)
                      EXCEPT !.reqs[r].rpc = "ttschunk"]
              ELSE ConsumeNext(Cur, r))
    /\ RunnerFrame

\* `await TTS.send_text_chunk` returned: the next `await q.get()`.
RunnerAfterTtsChunk(r) ==
    /\ At(r, "ttschunk")
    /\ Commit(ConsumeNext(Cur, r))
    /\ RunnerFrame

\* The finally of generate_stream, `wait_for(shield(fut), timeout=0.2)`, is over
\* (the producer returned or the 0.2 s passed); the stream ends or the exception
\* goes on.
RunnerGrace(r) ==
    /\ At(r, "grace")
    /\ Commit(IF reqs[r].exc = "" THEN AfterStream(Cur, r)
              ELSE ExcPath(Cur, r, reqs[r].exc))
    /\ RunnerFrame

\* `await _tts_safe_stop()` returned: the terminal emit of that branch.
RunnerAfterStop(r) ==
    /\ r \in DOMAIN reqs
    /\ reqs[r].rpc \in {"stop_int", "stop_to", "stop_err"}
    /\ Commit(CASE reqs[r].rpc = "stop_int" -> Terminal(Cur, r, "Interrupted", <<>>)
                [] reqs[r].rpc = "stop_to" -> Terminal(Cur, r, "Error", MSG_TIMEOUT)
                [] OTHER -> Terminal(Cur, r, "Error", MSG_ERROR))
    /\ RunnerFrame

\* `await _tts_final_flush()` returned.
RunnerAfterFlush(r) ==
    /\ At(r, "flush")
    /\ Commit(Success(Cur, r))
    /\ RunnerFrame

\* The terminal emit returned: finally.
RunnerFinal(r) ==
    /\ At(r, "final")
    /\ Commit(Finish(Cur, r))
    /\ RunnerFrame

\* Variant of ReqTimeout: the timeout also covers the terminal emit.
ReqTimeout_Late(r) ==
    /\ REQ_TIMEOUT_S # 0
    /\ r \in DOMAIN reqs
    /\ \/ /\ reqs[r].rpc = "get"
          /\ Commit([Cur EXCEPT !.reqs[r].rpc = "grace", !.reqs[r].exc = "timeout"])
       \/ /\ \/ reqs[r].rpc \in {"chunk", "ttschunk", "final"}
             \/ reqs[r].rpc = "grace" /\ reqs[r].exc \notin {"timeout", "cancelled"}
          /\ Commit(ExcPath(Cur, r, "timeout"))
    /\ RunnerFrame

\* asyncio.wait_for(_stream(), timeout=REQ_TIMEOUT_S) expires (lines 468-469):
\* _stream is cancelled where it is suspended and TimeoutError is raised. A
\* cancellation inside `await q.get()` runs the finally of generate_stream first.
ReqTimeout(r) ==
    /\ REQ_TIMEOUT_S # 0
    /\ r \in DOMAIN reqs
    /\ \/ /\ reqs[r].rpc = "get"
          /\ Commit([Cur EXCEPT !.reqs[r].rpc = "grace", !.reqs[r].exc = "timeout"])
       \/ /\ \/ reqs[r].rpc \in {"chunk", "ttschunk"}
             \/ reqs[r].rpc = "grace" /\ reqs[r].exc \notin {"timeout", "cancelled"}
          /\ Commit(ExcPath(Cur, r, "timeout"))
    /\ RunnerFrame

\* asyncio.Queue.get() of the pool is cancelled: a getter still waiting leaves
\* the list; one already woken hands the wake-up to the next getter when a worker
\* is still idle.
CancelGetter(s, x) ==
    IF x \notin s.woken THEN [s EXCEPT !.getters = SeqRemove(@, x)]
    ELSE IF s.idle # <<>> /\ s.getters # <<>>
    THEN [s EXCEPT !.woken = (@ \ {x}) \cup {Head(s.getters)}, !.getters = Tail(@)]
    ELSE [s EXCEPT !.woken = @ \ {x}]

\* The wait_for of an Interrupt (2 s) or of a disconnect (1 s) expires: the task
\* is cancelled. CancelledError is no Exception: only the finally clauses run.
\* The timer can expire while the runner waits for something of unbounded
\* duration: a worker, the next item of the engine, the TTS link.
ForceCancel(r) ==
    /\ r \in waited
    /\ \/ /\ reqs[r].rpc = "acquire"
          /\ Commit(ExcPath(CancelGetter(Cur, r), r, "cancelled"))
       \/ /\ reqs[r].rpc = "get"
          /\ Commit([Cur EXCEPT !.reqs[r].rpc = "grace", !.reqs[r].exc = "cancelled"])
       \/ /\ \/ reqs[r].rpc \in {"pre_stop", "ttschunk", "stop_int", "stop_to",
                                  "stop_err", "flush"}
             \/ reqs[r].rpc = "grace" /\ reqs[r].exc # "cancelled"
          /\ Commit(ExcPath(Cur, r, "cancelled"))
    /\ RunnerFrame

\* ---------------------------------------------------------- Router task
\* _run() of RouterDispatcher.dispatch up to the engine call: the pool is asked
\* for a worker; a Router task waiting in the pool stands in getters and woken
\* as -r. An engine that rejects the keyword arguments raises at the call, the
\* `async with` hands the worker back and RouterResult{ERROR} is emitted.
RouterTake(s, r, binds) ==
    IF s.idle = <<>>
    THEN [s EXCEPT !.getters = Append(@, -r), !.reqs[r].xpc = "wait"]
    ELSE IF binds
    THEN [s EXCEPT !.idle = Tail(@), !.reqs[r].xworker = Head(s.idle),
                   !.reqs[r].xpc = "gen"]
    ELSE [PutNowait([s EXCEPT !.idle = Tail(@)], Head(s.idle)) EXCEPT
            !.reqs[r].xpc = "done", !.reqs[r].xres = <<"ERROR">>]

RouterFrame ==
    UNCHANGED <<sessions, used_sids, agents, max_context_tokens, rejected, cancel, current_task, lock_owner, lock_waiters,
                waited, store, tts_index, client_index, closing,
                stt, stt_ops, cleanup>>

RouterStart(r, binds) ==
    /\ r \in DOMAIN reqs
    /\ reqs[r].xpc = "start"
    /\ LET s == RouterTake(Cur, r, binds)
       IN  reqs' = s.reqs /\ idle' = s.idle /\ getters' = s.getters /\ woken' = s.woken
    /\ RouterFrame

RouterAcquired(r, binds) ==
    /\ r \in DOMAIN reqs
    /\ reqs[r].xpc = "wait"
    /\ -r \in woken
    /\ LET s == RouterTake([Cur EXCEPT !.woken = @ \ {-r}], r, binds)
       IN  reqs' = s.reqs /\ idle' = s.idle /\ getters' = s.getters /\ woken' = s.woken
    /\ RouterFrame

\* Variant of RouterDone: the stream of the Router task is given the cancel flag
\* of the session and a set flag ends the task without a RouterResult.
RouterDone_SessionCancel(r, ok) ==
    /\ r \in DOMAIN reqs
    /\ reqs[r].xpc = "gen"
    /\ LET res == IF cancel[reqs[r].sid] THEN <<>>
                  ELSE IF ok THEN <<"ok">> ELSE <<"ERROR">>
           s == PutNowait([Cur EXCEPT !.reqs[r].xworker = 0, !.reqs[r].xpc = "done",
                                      !.reqs[r].xres = res],
                          reqs[r].xworker)
       IN  reqs' = s.reqs /\ idle' = s.idle /\ getters' = s.getters /\ woken' = s.woken
    /\ RouterFrame

\* The stream under _NEVER_CANCEL ended: the worker goes back, the output is
\* parsed and RouterResult is emitted, the parsed object or {ERROR}.
RouterDone(r, ok) ==
    /\ r \in DOMAIN reqs
    /\ reqs[r].xpc = "gen"
    /\ LET s == PutNowait([Cur EXCEPT !.reqs[r].xworker = 0, !.reqs[r].xpc = "done",
                                      !.reqs[r].xres =
                                            IF ok THEN <<"ok">> ELSE <<"ERROR">>],
                          reqs[r].xworker)
       IN  reqs' = s.reqs /\ idle' = s.idle /\ getters' = s.getters /\ woken' = s.woken
    /\ RouterFrame

\* The stream ended and json.loads returned a value that is no object (a list,
\* a string, a number): the worker goes back and the value is emitted as
\* RouterResult, lines 55-59.
RouterDoneValue(r) ==
    /\ r \in DOMAIN reqs
    /\ reqs[r].xpc = "gen"
    /\ LET s == PutNowait([Cur EXCEPT !.reqs[r].xworker = 0, !.reqs[r].xpc = "emitted",
                                      !.reqs[r].xres = <<"ok">>],
                          reqs[r].xworker)
       IN  reqs' = s.reqs /\ idle' = s.idle /\ getters' = s.getters /\ woken' = s.woken
    /\ RouterFrame

\* The emit of a value that is no object returned: obj.keys() of line 60
\* raises inside the try and the except clause emits RouterResult{ERROR}.
RouterKeysRaise(r) ==
    /\ r \in DOMAIN reqs
    /\ reqs[r].xpc = "emitted"
    /\ reqs' = [reqs EXCEPT ![r].xpc = "done", ![r].xres = Append(@, "ERROR")]
    /\ UNCHANGED <<idle, getters, woken>>
    /\ RouterFrame

\* ------------------------------------------------------- producer thread
\* LlamaCppEngine._sync_stream and producer(), on the executor thread.
ProducerFrame ==
    UNCHANGED <<sessions, used_sids, agents, max_context_tokens, rejected, cancel, current_task, lock_owner, lock_waiters,
                waited, store, idle, getters, woken, tts_index, client_index, closing,
                stt, stt_ops, cleanup>>

Pat(r, pc) == r \in DOMAIN reqs /\ reqs[r].ppc = pc

\* safe_put(item): q.put runs on the loop; the thread blocks while the buffer
\* is full. The buffer of a finished run has no reader: of what its producer
\* still generates and puts only the number of parts is kept (nparts, counted from
\* the end of the task).
Put(rq, item) == IF rq.rpc = "done" THEN rq.q ELSE Append(rq.q, item)

\* One turn of the loops of _sync_stream and producer(): the model streams a
\* part with a non-empty delta, the cancel flag is polled (lines 173 and 207),
\* and safe_put(chunk) enqueues the delta. A set flag breaks out to the finally.
ProducerPart(r) ==
    /\ Pat(r, "gen")
    /\ reqs[r].nparts < MaxDeltas
    /\ Len(reqs[r].q) < QUEUE_MAXSIZE
    /\ reqs' = IF cancel[reqs[r].sid]
               THEN [reqs EXCEPT ![r].ppc = "fin", ![r].nparts = 0, ![r].pworker = 0]
               ELSE IF reqs[r].rpc = "done" THEN [reqs EXCEPT ![r].nparts = @ + 1]
               ELSE [reqs EXCEPT ![r].nparts = @ + 1,
                                 ![r].gen = Append(@, DeltaAt(reqs[r].nparts + 1)),
                                 ![r].q = Put(reqs[r], DeltaAt(reqs[r].nparts + 1))]
    /\ ProducerFrame

\* The stream of the model is exhausted.
ProducerEnd(r) ==
    /\ Pat(r, "gen")
    /\ reqs' = [reqs EXCEPT ![r].ppc = "fin", ![r].nparts = 0, ![r].pworker = 0]
    /\ ProducerFrame

\* create_chat_completion fails or a part is malformed: RuntimeError, which
\* producer() passes in band: safe_put("__ERROR__:...").
ProducerRaise(r) ==
    /\ Pat(r, "gen")
    /\ Len(reqs[r].q) < QUEUE_MAXSIZE
    /\ reqs' = [reqs EXCEPT ![r].q = Put(reqs[r], Q_ERROR), ![r].ppc = "fin",
                            ![r].nparts = 0, ![r].pworker = 0]
    /\ ProducerFrame

\* finally: safe_put(None); the thread returns.
ProducerFin(r) ==
    /\ Pat(r, "fin")
    /\ Len(reqs[r].q) < QUEUE_MAXSIZE
    /\ reqs' = [reqs EXCEPT ![r].q = Put(reqs[r], Q_NONE), ![r].ppc = "done"]
    /\ ProducerFrame

\* ------------------------------------------------------------------ Next
\* The environment issues at most n inputs.
Quota(n) == Len(reqs) < n

\* Steps of the tasks and threads a run is made of, TTS awaits aside.
RunSteps ==
    \/ \E r \in DOMAIN reqs : ChatLockAcquired(r)
    \/ \E r \in DOMAIN reqs : ChatCreateTask(r)
    \/ \E r \in DOMAIN reqs, binds \in BOOLEAN : RouterStart(r, binds)
    \/ \E r \in DOMAIN reqs, binds \in BOOLEAN : RouterAcquired(r, binds)
    \/ \E r \in DOMAIN reqs, ok \in BOOLEAN : RouterDone(r, ok)
    \/ \E r \in DOMAIN reqs, binds \in BOOLEAN : RunnerStart(r, binds)
    \/ \E r \in DOMAIN reqs, binds \in BOOLEAN : RunnerAcquired(r, binds)
    \/ \E r \in DOMAIN reqs : RunnerGet(r)
    \/ \E r \in DOMAIN reqs : RunnerAfterChunk(r)
    \/ \E r \in DOMAIN reqs : RunnerGrace(r)
    \/ \E r \in DOMAIN reqs : RunnerFinal(r)
    \/ \E r \in DOMAIN reqs : ReqTimeout(r)
    \/ \E r \in DOMAIN reqs : ForceCancel(r)
    \/ \E r \in DOMAIN reqs : ProducerPart(r)
    \/ \E r \in DOMAIN reqs : ProducerEnd(r)
    \/ \E r \in DOMAIN reqs : ProducerRaise(r)
    \/ \E r \in DOMAIN reqs : ProducerFin(r)

\* Steps of a run that awaits the TTS link.
TtsSteps ==
    \/ \E r \in DOMAIN reqs, binds \in BOOLEAN : RunnerAfterPreStop(r, binds)
    \/ \E r \in DOMAIN reqs : RunnerAfterTtsChunk(r)
    \/ \E r \in DOMAIN reqs : RunnerAfterStop(r)
    \/ \E r \in DOMAIN reqs : RunnerAfterFlush(r)

\* One session, typed and spoken inputs, no TTS and no memory.
Next ==
    \/ Connect("s1")
    \/ \E m \in {<<"none", "">>, <<"thread_window", "">>} :
            Quota(MaxReq) /\ Chat("s1", m[1], m[2])
    \/ \E ok \in BOOLEAN : JoinSTT("s1", "c1", "none", "", ok)
    \/ LeaveSTT("s1", "c1")
    \/ Quota(MaxReq) /\ Transcript("c1")
    \/ Interrupt("s1")
    \/ Disconnect("s1")
    \/ DisconnectCleanup("s1")
    \/ RunSteps

Spec == Init /\ [][Next]_vars

\* One session with TTS bindings coming and going.
NextTts ==
    \/ Connect("s1")
    \/ Quota(MaxReq) /\ Chat("s1", "none", "")
    \/ \E cid \in TTS_CLIENTS : JoinTTS("s1", cid)
    \/ \E cid \in TTS_CLIENTS : LeaveTTS("s1", cid)
    \/ Interrupt("s1")
    \/ RunSteps
    \/ TtsSteps

SpecTts == Init /\ [][NextTts]_vars

\* One session whose inputs use the thread memory.
NextMem ==
    \/ Connect("s1")
    \/ \E th \in THREADS : Quota(MaxReq) /\ Chat("s1", "thread_window", th)
    \/ Interrupt("s1")
    \/ Disconnect("s1")
    \/ DisconnectCleanup("s1")
    \/ RunSteps

SpecMem == Init /\ [][NextMem]_vars

\* Two sessions that share a memory thread; no timer expires and the engine
\* does not fail.
NextShared ==
    \/ \E sid \in SIDS : Connect(sid)
    \/ \E sid \in SIDS, th \in THREADS :
            Quota(MaxReq) /\ Chat(sid, "thread_window", th)
    \/ \E r \in DOMAIN reqs : ChatLockAcquired(r)
    \/ \E r \in DOMAIN reqs : ChatCreateTask(r)
    \/ \E r \in DOMAIN reqs : RouterStart(r, TRUE)
    \/ \E r \in DOMAIN reqs : RouterAcquired(r, TRUE)
    \/ \E r \in DOMAIN reqs : RouterDone(r, TRUE)
    \/ \E r \in DOMAIN reqs : RunnerStart(r, TRUE)
    \/ \E r \in DOMAIN reqs : RunnerAcquired(r, TRUE)
    \/ \E r \in DOMAIN reqs : RunnerGet(r)
    \/ \E r \in DOMAIN reqs : RunnerAfterChunk(r)
    \/ \E r \in DOMAIN reqs : RunnerGrace(r)
    \/ \E r \in DOMAIN reqs : RunnerFinal(r)
    \/ \E r \in DOMAIN reqs : ProducerPart(r)
    \/ \E r \in DOMAIN reqs : ProducerEnd(r)
    \/ \E r \in DOMAIN reqs : ProducerFin(r)

SpecShared == Init /\ [][NextShared]_vars

\* The client ids each session speaks through: s1 uses both, s2 contends for c2.
STT_USERS == {<<"s1", "c1">>, <<"s1", "c2">>, <<"s2", "c2">>}

\* Two sessions and the STT link: subscriptions come and go while the link
\* connects, drops and reconnects; the runs the transcripts start are not
\* followed.
NextStt ==
    \/ \E sid \in SIDS : Connect(sid)
    \/ \E p \in STT_USERS : JoinSTTCall(p[1], p[2], "none", "")
    \/ \E p \in STT_USERS : JoinSTTWoken(p[1], p[2])
    \/ \E p \in STT_USERS : JoinSTTConnected(p[1], p[2])
    \/ \E p \in STT_USERS : JoinSTTLocked(p[1], p[2])
    \/ \E p \in STT_USERS : JoinSTTFailed(p[1], p[2])
    \/ \E p \in STT_USERS : JoinSTTSubscribed(p[1], p[2])
    \/ \E p \in STT_USERS : LeaveSTTCall(p[1], p[2])
    \/ \E p \in STT_USERS : LeaveSTTUnsubscribed(p[1], p[2])
    \/ \E sid \in SIDS : DisconnectCall(sid)
    \/ \E sid \in SIDS : DisconnectNext(sid)
    \/ SttConnect
    \/ SttResubscribed
    \/ SttDrop
    \/ \E cid \in STT_CLIENTS : Quota(MaxSpoken) /\ OnTranscription(cid)

SpecStt == Init /\ [][NextStt]_vars

\* Interrupt sent while the run of the session streams and the engine has not
\* finished.
InterruptStreaming(sid) ==
    /\ current_task[sid] # 0
    /\ reqs[current_task[sid]].rpc \in {"get", "chunk", "ttschunk"}
    /\ reqs[current_task[sid]].ppc = "gen"
    /\ Interrupt(sid)

\* One session with memory and a TTS client, interrupted while a run streams;
\* the request timeout does not expire and the engine does not fail.
NextInt ==
    \/ Connect("s1")
    \/ \E th \in THREADS : Quota(MaxReq) /\ Chat("s1", "thread_window", th)
    \/ \E cid \in TTS_CLIENTS : JoinTTS("s1", cid)
    \/ InterruptStreaming("s1")
    \/ \E r \in DOMAIN reqs : ChatLockAcquired(r)
    \/ \E r \in DOMAIN reqs : ChatCreateTask(r)
    \/ \E r \in DOMAIN reqs : RouterStart(r, TRUE)
    \/ \E r \in DOMAIN reqs : RouterAcquired(r, TRUE)
    \/ \E r \in DOMAIN reqs : RouterDone(r, TRUE)
    \/ \E r \in DOMAIN reqs : RunnerStart(r, TRUE)
    \/ \E r \in DOMAIN reqs : RunnerAfterPreStop(r, TRUE)
    \/ \E r \in DOMAIN reqs : RunnerAcquired(r, TRUE)
    \/ \E r \in DOMAIN reqs : RunnerGet(r)
    \/ \E r \in DOMAIN reqs : RunnerAfterChunk(r)
    \/ \E r \in DOMAIN reqs : RunnerAfterTtsChunk(r)
    \/ \E r \in DOMAIN reqs : RunnerGrace(r)
    \/ \E r \in DOMAIN reqs : RunnerAfterStop(r)
    \/ \E r \in DOMAIN reqs : RunnerAfterFlush(r)
    \/ \E r \in DOMAIN reqs : RunnerFinal(r)
    \/ \E r \in DOMAIN reqs : ForceCancel(r)
    \/ \E r \in DOMAIN reqs : ProducerPart(r)
    \/ \E r \in DOMAIN reqs : ProducerEnd(r)
    \/ \E r \in DOMAIN reqs : ProducerFin(r)

SpecInt == Init /\ [][NextInt]_vars

\* What the loop and the executor do for request r without waiting for anything
\* outside the process: the handler, the runner task, the Router task and the
\* producer thread.
HandlerStep(r) == ChatLockAcquired(r) \/ ChatCreateTask(r)

RunnerStep(r) ==
    \/ RunnerStart(r, TRUE)
    \/ RunnerAcquired(r, TRUE)
    \/ RunnerGet(r)
    \/ RunnerAfterChunk(r)
    \/ RunnerGrace(r)
    \/ RunnerFinal(r)

RouterStep(r) ==
    \E b \in BOOLEAN : RouterStart(r, b) \/ RouterAcquired(r, b) \/ RouterDone(r, b)

ProducerStep(r) == ProducerPart(r) \/ ProducerEnd(r) \/ ProducerFin(r)

\* One session without TTS and memory whose runs are interrupted and time out
\* while the Router tasks of the inputs are in flight.
NextRtr ==
    \/ Connect("s1")
    \/ Quota(MaxReq) /\ Chat("s1", "none", "")
    \/ Interrupt("s1")
    \/ \E r \in DOMAIN reqs : HandlerStep(r)
    \/ \E r \in DOMAIN reqs : RunnerStep(r)
    \/ \E r \in DOMAIN reqs : RouterStep(r)
    \/ \E r \in DOMAIN reqs : ProducerStep(r)
    \/ \E r \in DOMAIN reqs : ReqTimeout(r)
    \/ \E r \in DOMAIN reqs : ForceCancel(r)

\* The event loop runs every ready task, the executor every thread, and the
\* stream of the model is finite; timers and the client are not forced.
FairRtr ==
    \A r \in 1..MaxReq :
        /\ WF_vars(HandlerStep(r))
        /\ WF_vars(RunnerStep(r))
        /\ WF_vars(RouterStep(r))
        /\ WF_vars(ProducerStep(r))

SpecRtr == Init /\ [][NextRtr]_vars /\ FairRtr

\* The Router tasks of the inputs of one session, whatever the router model
\* writes, in a deployment that has the router preset.
InitRes == Init /\ "router" \in agents

NextRes ==
    \/ NextRtr
    \/ \E r \in DOMAIN reqs : RouterDoneValue(r)
    \/ \E r \in DOMAIN reqs : RouterKeysRaise(r)

SpecRes == InitRes /\ [][NextRes]_vars

\* The steps of RunSteps a single input can take: it contends with no other for
\* the session lock and its Router task finds the worker idle.
SoloSteps ==
    \/ \E r \in DOMAIN reqs : ChatCreateTask(r)
    \/ \E r \in DOMAIN reqs, binds \in BOOLEAN : RouterStart(r, binds)
    \/ \E r \in DOMAIN reqs, ok \in BOOLEAN : RouterDone(r, ok)
    \/ \E r \in DOMAIN reqs, binds \in BOOLEAN : RunnerStart(r, binds)
    \/ \E r \in DOMAIN reqs, binds \in BOOLEAN : RunnerAcquired(r, binds)
    \/ \E r \in DOMAIN reqs : RunnerGet(r)
    \/ \E r \in DOMAIN reqs : RunnerAfterChunk(r)
    \/ \E r \in DOMAIN reqs : RunnerGrace(r)
    \/ \E r \in DOMAIN reqs : RunnerFinal(r)
    \/ \E r \in DOMAIN reqs : ReqTimeout(r)
    \/ \E r \in DOMAIN reqs : ForceCancel(r)
    \/ \E r \in DOMAIN reqs : ProducerPart(r)
    \/ \E r \in DOMAIN reqs : ProducerEnd(r)
    \/ \E r \in DOMAIN reqs : ProducerRaise(r)
    \/ \E r \in DOMAIN reqs : ProducerFin(r)

\* One session whose client also sends malformed Chat and JoinSTT payloads, and
\* events after its disconnect.
NextRej ==
    \/ Connect("s1")
    \/ \E isdict \in BOOLEAN, agent \in AGENT_NAMES, text \in TEXTS :
            Quota(MaxTyped) /\ ChatEvent("s1", isdict, agent, text)
    \/ \E isdict \in BOOLEAN, cid \in {"c1", ""}, agent \in AGENT_NAMES :
            JoinSTTEvent("s1", isdict, cid, agent)
    \/ LeaveSTT("s1", "c1")
    \/ Interrupt("s1")
    \/ Disconnect("s1")
    \/ DisconnectCleanup("s1")
    \/ SoloSteps

SpecRej == Init /\ [][NextRej]_vars

\* One run on a thread that holds turns already.
NextPre ==
    \/ Connect("s1")
    \/ \E th \in THREADS : Quota(MaxTyped) /\ Chat("s1", "thread_window", th)
    \/ Interrupt("s1")
    \/ SoloSteps

SpecPre == InitPre /\ [][NextPre]_vars

\* ----------------------------------------------------------- observation
IsSio(e) == e.ch = "sio"

IsChatChunk(e) == e.ch = "sio" /\ e.ev = "ChatChunk"

IsTtsChunk(e) == e.ch = "tts" /\ e.ev = "tts_text_chunk" /\ ~e.final

IsFlush(e) == e.ch = "tts" /\ e.ev = "tts_text_chunk" /\ e.final /\ e.chunk = <<>>

Chunks(events) == [i \in 1..Len(events) |-> events[i].chunk]

\* The run of request r was accepted (RunStarted emitted) and its task has not
\* finished.
Active(r) ==
    /\ reqs[r].code = ""
    /\ reqs[r].hpc \in {"runstarted", "done"}
    /\ reqs[r].rpc # "done"

ActiveRuns(sid) == {r \in DOMAIN reqs : reqs[r].sid = sid /\ Active(r)}

\* The last thing run r emitted is a terminal event, one of evs.
EndsWith(r, evs) ==
    /\ reqs[r].trace # <<>>
    /\ IsTerminal(Last(reqs[r].trace))
    /\ Last(reqs[r].trace).ev \in evs

UsesMemory(r) == reqs[r].mem # "none" /\ reqs[r].thread # ""

UserTurn(r) == [role |-> "user", content |-> <<"hi">>, by |-> r]

AssistantTurn(r, content) == [role |-> "assistant", content |-> content, by |-> r]

\* ------------------------------------------------------------------- C1
\* C1: in every reachable state each session has at most one active run
\* (accepted and not yet terminated), whatever the interleaving of Chat events,
\* STT transcripts, Interrupt and disconnect.
C1_SingleInflight == \A sid \in SIDS : Cardinality(ActiveRuns(sid)) <= 1

\* A run is active while another input of the same session waits for the lock.
C1_Witness ==
    \E r \in DOMAIN reqs, k \in DOMAIN reqs :
        /\ Active(r)
        /\ reqs[k].sid = reqs[r].sid
        /\ reqs[k].hpc = "lockwait"

\* ------------------------------------------------------------------- C2
\* An input enters the run orchestrator while the session's current_task is
\* set and unfinished.
BusyArrival == Len(reqs') = Len(reqs) + 1 /\ Busy(Cur, Last(reqs').sid)

\* The input that entered is answered with one of the codes at once: no
\* RunStarted, no task, no place in the lock queue, and the cancel flag, the
\* current task and every other request are as they were.
RejectedWith(codes) ==
    /\ Last(reqs').code \in codes
    /\ Last(reqs').hpc = "done"
    /\ Last(reqs').rpc = "none"
    /\ Last(reqs').trace = <<>>
    /\ SubSeq(reqs', 1, Len(reqs)) = reqs
    /\ cancel' = cancel
    /\ current_task' = current_task
    /\ lock_owner' = lock_owner
    /\ lock_waiters' = lock_waiters

\* A rejected input never starts a run later.
RejectedStays ==
    \A k \in DOMAIN reqs :
        reqs[k].code # "" =>
            /\ reqs'[k].code = reqs[k].code
            /\ reqs'[k].rpc = "none"
            /\ reqs'[k].trace = <<>>

\* The input passes the session lookup and the memory resolution that precede
\* the busy guard.
PassesResolution ==
    /\ Last(reqs').sid \in sessions
    /\ ~(Last(reqs').mem # "none" /\ Last(reqs').thread = "")

\* C2 as stated: every Chat or STT transcript that reaches the run orchestrator
\* while the session's current run is unfinished is rejected with BUSY, emits no
\* RunStarted, is never queued, and leaves the active run unaffected.
C2_Original == [][(BusyArrival => RejectedWith({"BUSY"})) /\ RejectedStays]_vars

\* C2 amended: such an input is always rejected without RunStarted, without
\* being queued and without effect on the active run; the code is BUSY when the
\* input passes the session lookup and the memory resolution, which come first,
\* and NO_SESSION or MEM_THREAD_REQUIRED otherwise.
C2_BusyRejected ==
    [][/\ BusyArrival /\ PassesResolution => RejectedWith({"BUSY"})
       /\ BusyArrival => RejectedWith({"BUSY", "NO_SESSION", "MEM_THREAD_REQUIRED"})
       /\ RejectedStays]_vars

\* An input was rejected with BUSY and the run that made the session busy is
\* still streaming.
C2_Witness ==
    \E r \in DOMAIN reqs, k \in DOMAIN reqs :
        /\ reqs[k].code = "BUSY"
        /\ current_task[reqs[k].sid] = r
        /\ reqs[r].rpc \in {"get", "chunk"}
        /\ reqs[r].out # <<>>

\* ------------------------------------------------------------------- C3
\* C3: every run that was started and whose task is over has emitted exactly
\* one terminal event with its runId, on every exit path, the expiry of the
\* wait of Interrupt (2 s) and of disconnect (1 s) included.
C3_ExactlyOneTerminal ==
    \A r \in DOMAIN reqs : reqs[r].rpc = "done" => reqs[r].nterm = 1

\* ------------------------------------------------------------------- C4
\* C4: for any runId at most one of ChatDone, Interrupted and Error is ever
\* emitted, and at most once.
C4_TerminalOnce ==
    \A r \in DOMAIN reqs :
        /\ Len(TerminalsOf(reqs[r].trace)) <= 1
        /\ reqs[r].nterm <= 1

\* A run emitted its terminal event while an Interrupt that raced with it still
\* waits for the task.
C4_Witness ==
    \E r \in DOMAIN reqs :
        /\ reqs[r].rpc = "final"
        /\ Len(TerminalsOf(reqs[r].trace)) = 1
        /\ cancel[reqs[r].sid]
        /\ r \in waited

\* ------------------------------------------------------------------- C5
\* C5: the events a run sends to its session are RunStarted first, then
\* ChatChunks in the order the engine generated the deltas, then the terminal
\* event; no ChatChunk before RunStarted or after the terminal event.
C5_RunOrdering ==
    \A r \in DOMAIN reqs :
        LET ev == SelectSeq(reqs[r].trace, IsSio)
            ch == SelectSeq(ev, IsChatChunk)
        IN  ev # <<>> =>
                /\ ev[1].ev = "RunStarted"
                /\ \A i \in 2..Len(ev) : ev[i].ev \in {"ChatChunk"} \cup TERMINALS
                /\ \A i \in 1..(Len(ev) - 1) : ~IsTerminal(ev[i])
                /\ Len(ch) <= Len(reqs[r].gen)
                /\ \A i \in 1..Len(ch) : ch[i].chunk = reqs[r].gen[i]

\* A run streamed two chunks and then emitted ChatDone.
C5_Witness ==
    \E r \in DOMAIN reqs :
        /\ EndsWith(r, {"ChatDone"})
        /\ Len(SelectSeq(reqs[r].trace, IsChatChunk)) >= 2

\* ------------------------------------------------------------------- C6
\* C6: every ChatChunk emitted while a TTS binding exists for the sid (also a
\* binding made by JoinTTS during the run) is followed, before the run does
\* anything else, by the identical tts_text_chunk for the bound client id.
C6_ChunkForwarded ==
    [][\A r \in DOMAIN reqs :
         (/\ reqs[r].rpc = "chunk"
          /\ reqs'[r].rpc # "chunk"
          /\ BoundClient(tts_index, reqs[r].sid) # "")
         => /\ Len(reqs'[r].trace) > Len(reqs[r].trace)
            /\ reqs'[r].trace[Len(reqs[r].trace) + 1] =
                  Tts("tts_text_chunk", BoundClient(tts_index, reqs[r].sid),
                      Last(reqs[r].out), FALSE)]_vars

C9_TurnsAdjacent ==
    \A r \in DOMAIN reqs :
        (UsesMemory(r) /\ EndsWith(r, {"ChatDone"})) =>
            LET th == store[reqs[r].thread]
                said == Join(Chunks(SelectSeq(reqs[r].trace, IsChatChunk)))
            IN  \E i \in 1..(Len(th) - 1) :
                    th[i] = UserTurn(r) /\ th[i + 1] = AssistantTurn(r, said)

\* ------------------------------------------------------------------ C10
\* The turns of run r in its thread, by role.
TurnsOf(r, role) ==
    {i \in 1..Len(store[reqs[r].thread]) :
        store[reqs[r].thread][i].by = r /\ store[reqs[r].thread][i].role = role}

\* A run with memory whose terminal event is Interrupted or Error has its user
\* turn in the thread and no assistant turn.
FailedRunTurns ==
    \A r \in DOMAIN reqs :
        (UsesMemory(r) /\ EndsWith(r, {"Interrupted", "Error"})) =>
            /\ Cardinality(TurnsOf(r, "user")) = 1
            /\ TurnsOf(r, "assistant") = {}

\* An assistant turn enters a thread only in the step in which its run emits
\* ChatDone.
AssistantOnlyWithChatDone ==
    \A th \in THREADS :
        (Len(store'[th]) > Len(store[th]) /\ Last(store'[th]).role = "assistant") =>
            /\ Len(reqs'[Last(store'[th]).by].trace) =
                    Len(reqs[Last(store'[th]).by].trace) + 1
            /\ Last(reqs'[Last(store'[th]).by].trace) = Sio("ChatDone", <<>>)

\* C10: a memory-enabled run that ends in Interrupted, Timeout or Error has its
\* user turn recorded and no assistant turn; an assistant turn is appended only
\* by a run whose terminal event is ChatDone.
C10_NoAssistantUnlessDone == [][FailedRunTurns' /\ AssistantOnlyWithChatDone]_vars

\* A run with memory streamed a chunk and ended with the timeout Error; its user
\* turn is in the thread.
C10_Witness ==
    \E r \in DOMAIN reqs :
        /\ UsesMemory(r)
        /\ EndsWith(r, {"Error"})
        /\ Last(reqs[r].trace).chunk = MSG_TIMEOUT
        /\ reqs[r].out # <<>>
        /\ TurnsOf(r, "user") # {}

\* ------------------------------------------------------------------- C11
\* The runs and Router tasks that hold worker w.
Renters(w) ==
    {r \in DOMAIN reqs : reqs[r].worker = w} \cup
    {-r : r \in {x \in DOMAIN reqs : reqs[x].xworker = w}}

\* The positions of the runner inside `async with POOL.acquire()`.
IN_SCOPE == {"get", "chunk", "ttschunk", "grace"}

\* C11: every worker of the pool is either idle, once, or held by exactly one
\* renter, so that idle + rented = POOL_SIZE and rented <= POOL_SIZE; a run or a
\* Router task outside the acquire scope, whichever way it left it, holds none.
C11_PoolAccounting ==
    /\ \A i \in DOMAIN idle : idle[i] \in 1..POOL_SIZE
    /\ \A w \in 1..POOL_SIZE :
            Cardinality({i \in DOMAIN idle : idle[i] = w}) + Cardinality(Renters(w)) = 1
    /\ \A r \in DOMAIN reqs :
            /\ reqs[r].worker \in 0..POOL_SIZE
            /\ reqs[r].xworker \in 0..POOL_SIZE
            /\ reqs[r].rpc \notin IN_SCOPE => reqs[r].worker = 0
            /\ reqs[r].xpc # "gen" => reqs[r].xworker = 0

\* A run whose task was cancelled inside the scope still holds the only worker
\* while another renter waits for it.
C11_Witness ==
    \E r \in DOMAIN reqs :
        /\ reqs[r].rpc = "grace"
        /\ reqs[r].exc = "cancelled"
        /\ reqs[r].worker # 0
        /\ getters # <<>>

\* ------------------------------------------------------------------- C12
\* The step hands a worker to a caller at its call of acquire(): a runner that
\* had not asked before, or a Router task at its first step.
GrantedAtCall(r) ==
    \/ reqs[r].rpc \in {"start", "pre_stop"} /\ reqs'[r].worker # 0
    \/ reqs[r].xpc = "start" /\ reqs'[r].xworker # 0

\* C12: workers are granted in the order the callers began waiting: a caller is
\* served at its call of acquire() only when no earlier caller still waits, be
\* it blocked in the queue or already woken and not yet resumed.
C12_Fifo ==
    [][\A r \in DOMAIN reqs : GrantedAtCall(r) => getters = <<>> /\ woken = {}]_vars

\* ------------------------------------------------------------------- C13
\* Every wanted room was subscribed on the connection the link now has.
AllResubscribed == \A cid \in stt.wanted : cid \in stt.rooms

\* C13: after a reconnect the link is marked ready (the connected flag is set)
\* only when subscribe_transcripts was re-sent for every wanted client id, and a
\* transcript is dispatched to the callback only then.
C13_ResubscribedBeforeReady ==
    [][/\ stt'.connected => AllResubscribed'
       /\ Len(reqs') > Len(reqs) => AllResubscribed]_vars

\* ------------------------------------------------------------------- C14
\* The step emits a subscribe_transcripts of the connect handler for cid.
Resent(cid) == stt'.resent[cid] > stt.resent[cid]

\* C14: for a reconnect the connect handler sends one subscribe_transcripts per
\* wanted client id, never a second one and none for a client id that is no
\* longer wanted; once it is through every wanted client id is subscribed on the
\* new connection, and a transcript goes to the sid that owns its client id.
C14_OneResubscribePerWanted ==
    [][/\ \A cid \in STT_CLIENTS :
            /\ stt'.resent[cid] <= 1
            /\ Resent(cid) => cid \in stt.wanted
       /\ stt'.connected /\ stt'.resub = <<>> => AllResubscribed'
       /\ Len(reqs') > Len(reqs) =>
            \E cid \in stt.rooms : client_index[cid].sid = Last(reqs').sid]_vars

\* ------------------------------------------------------------------- C15
\* disconnect(sid) ran to its end: the sid is unregistered and the handler
\* neither awaits the run nor is inside its unsubscribe loop.
DisconnectDone(sid) ==
    /\ sid \in used_sids \ sessions
    /\ sid \notin closing
    /\ cleanup[sid] = <<>>

\* C15: once disconnect handling of a sid is complete, CLIENT_INDEX holds no
\* subscription owned by that sid, whatever JoinSTT and LeaveSTT handlers were or
\* still are in flight.
C15_NoStaleSubscription ==
    \A sid \in SIDS : DisconnectDone(sid) => Owned(client_index, sid) = {}

\* A JoinSTT of the sid is still suspended on the link after its disconnect
\* went through the unsubscribe loop.
C15_Witness ==
    \E p \in STT_USERS :
        /\ DisconnectDone(p[1])
        /\ stt_ops[p] \in {"join_connect", "join_emit"}
        /\ stt.drops > 0

\* ------------------------------------------------------------------- C16
\* JoinSTT(sid, cid) twice in a row, each run to its end.
JoinedOnce(p) ==
    JoinWhole(SttCur, p[1], p[2], "none", "", CHOOSE o \in Orders(stt.wanted) : TRUE)

JoinedTwice(p) ==
    JoinWhole(JoinedOnce(p), p[1], p[2], "none", "",
              CHOOSE o \in Orders(JoinedOnce(p).link.wanted) : TRUE)

\* C16: in every state in which a session may send them, a JoinSTT repeated
\* with the same arguments leaves what the first one left, one CLIENT_INDEX
\* entry for the client id, owned by the sid, and the client id a member of the
\* wanted set; a LeaveSTT repeated after the first returns at its lookup, before
\* any emit, and changes nothing.
C16_Idempotent ==
    \A p \in STT_USERS :
        p[1] \in sessions /\ stt_ops[p] = "" =>
            /\ JoinedTwice(p) = JoinedOnce(p)
            /\ JoinedTwice(p).index[p[2]] = Sub(p[1], "none", "")
            /\ p[2] \in JoinedTwice(p).link.wanted
            /\ LeaveUnsubscribe(LeaveWhole(SttCur, p[1], p[2]), p[1], p[2])
                    = LeaveWhole(SttCur, p[1], p[2])
            /\ LeaveWhole(LeaveWhole(SttCur, p[1], p[2]), p[1], p[2])
                    = LeaveWhole(SttCur, p[1], p[2])

\* s1 left c1 after the reconnect had re-sent it and may send LeaveSTT again;
\* its JoinSTT for c2, which the reconnect re-sent too, is a repeated one.
C16_Witness ==
    /\ "s1" \in sessions
    /\ "s2" \notin used_sids
    /\ stt.resent = [c \in STT_CLIENTS |-> 1]
    /\ client_index["c1"] = NO_SUB
    /\ "c1" \notin stt.wanted
    /\ stt_ops[<<"s1", "c1">>] = ""
    /\ client_index["c2"] = Sub("s1", "none", "")
    /\ "c2" \in stt.wanted
    /\ stt_ops[<<"s1", "c2">>] = "join_emit"

\* ------------------------------------------------------------------- C17
\* The step ends the task of run r.
TaskEnds(r) == reqs[r].rpc # "done" /\ reqs'[r].rpc = "done"

\* What run r emitted: Interrupted as its one terminal event, the last thing it
\* did, with stop_generation for its TTS client right before.
EndedInterrupted(r) ==
    LET tr == reqs[r].trace
        n == Len(tr)
    IN  /\ TerminalsOf(tr) = <<Sio("Interrupted", <<>>)>>
        /\ tr[n] = Sio("Interrupted", <<>>)
        /\ reqs[r].tts # "" =>
                n >= 2 /\ tr[n - 1] = Tts("stop_generation", reqs[r].tts, <<>>, FALSE)

\* C17: an Interrupt sent while a run streams and the engine has not finished
\* sets the cancel flag; the run the handler waits for ends with Interrupted
\* carrying its run id and not with ChatDone, after stop_generation when it has a
\* TTS client, and appends no assistant turn.
C17_InterruptEndsRun ==
    [][/\ \A r \in waited' \ waited : cancel'[reqs[r].sid]
       /\ \A r \in DOMAIN reqs :
            TaskEnds(r) /\ r \in waited =>
                /\ EndedInterrupted(r)
                /\ \A th \in THREADS : \A i \in DOMAIN store'[th] :
                        store'[th][i] # AssistantTurn(r, store'[th][i].content)]_vars

\* ------------------------------------------------------------------- C18
\* The request timeout of run r expired: TimeoutError is on its way through the
\* finally of generate_stream, or the except clause of lines 484-488 was entered.
TimedOut(r) ==
    \/ reqs[r].exc = "timeout"
    \/ reqs[r].rpc = "stop_to"
    \/ Sio("Error", MSG_TIMEOUT) \in {reqs[r].trace[i] : i \in DOMAIN reqs[r].trace}

\* What run r emitted: Error with the timeout message as its one terminal
\* event, the last thing it did, with stop_generation for its TTS client right
\* before.
EndedTimeout(r) ==
    LET tr == reqs[r].trace
        n == Len(tr)
    IN  /\ TerminalsOf(tr) = <<Sio("Error", MSG_TIMEOUT)>>
        /\ tr[n] = Sio("Error", MSG_TIMEOUT)
        /\ reqs[r].tts # "" =>
                n >= 2 /\ tr[n - 1] = Tts("stop_generation", reqs[r].tts, <<>>, FALSE)

\* C18: a run whose streaming phase exceeds the configured timeout ends with
\* Error "Timeout after Ns" as its terminal event, after the cancel flag was set
\* and stop_generation was sent to its TTS client; it emits neither ChatDone nor
\* Interrupted and appends no assistant turn.
C18_TimeoutEndsRun ==
    [][\A r \in DOMAIN reqs :
        /\ TimedOut(r) =>
                /\ \A i \in DOMAIN reqs[r].trace :
                        reqs[r].trace[i] \notin {Sio("ChatDone", <<>>), Sio("Interrupted", <<>>)}
                /\ \A th \in THREADS : \A i \in DOMAIN store[th] :
                        store[th][i] # AssistantTurn(r, store[th][i].content)
                /\ reqs[r].exc # "timeout" => cancel[reqs[r].sid]
        /\ TimedOut(r) /\ TaskEnds(r) => EndedTimeout(r)]_vars

\* ------------------------------------------------------------------- C19
\* The cancel flag run r polls is set.
CancelSet(r) == cancel[reqs[r].sid]

\* C19: with the cancel flag set, a step of the engine yields no delta: the
\* consumer of generate_stream hands none to the run, the generator on the
\* producer thread yields none, and the consumer that takes an item from the
\* buffer ends the sequence there.
C19_NoDeltaOnceCancelled ==
    [][\A r \in DOMAIN reqs :
        CancelSet(r) =>
            /\ Len(reqs'[r].out) <= Len(reqs[r].out)
            /\ Len(reqs'[r].gen) <= Len(reqs[r].gen)
            /\ reqs'[r].nparts <= reqs[r].nparts
            /\ reqs[r].rpc = "get" => reqs'[r].rpc \in {"get", "grace", "done"}]_vars

\* The flag was set while a delta was in the buffer: the consumer took the
\* delta and ended the sequence without yielding it.
C19_Witness ==
    \E r \in DOMAIN reqs :
        /\ CancelSet(r)
        /\ reqs[r].rpc = "grace"
        /\ reqs[r].exc = ""
        /\ reqs[r].ppc = "gen"
        /\ Len(reqs[r].gen) > Len(reqs[r].out)

\* ------------------------------------------------------------------- C20
\* The consumer of run r is gone and its producer thread has not returned from
\* the generation loop.
Abandoned(r) == reqs[r].rpc = "done" /\ reqs[r].ppc = "gen"

\* C20: once the consumer has abandoned the handoff buffer, the producer thread
\* produces no further part: at its next poll it finds the cancel flag set and
\* leaves the loop, also when the session has started a later run.
C20_ProducerStops ==
    [][\A r \in DOMAIN reqs : Abandoned(r) => reqs'[r].nparts <= reqs[r].nparts]_vars

\* ------------------------------------------------------------------- C21
\* The Router task of request r has not emitted its RouterResult yet.
RouterInFlight(r) == r \in DOMAIN reqs /\ reqs[r].xpc \notin {"none", "done"}

RouterEmitted(r) ==
    r \in DOMAIN reqs /\ reqs[r].xpc = "done" /\ reqs[r].xres \in {<<"ok">>, <<"ERROR">>}

\* C21: a Router run in flight while the cancel flag of its session is set (by
\* an Interrupt or by the timeout of the main run) is not terminated by it: it
\* completes and emits its RouterResult.
C21_RouterIgnoresCancel ==
    \A r \in 1..MaxReq :
        (RouterInFlight(r) /\ cancel[reqs[r].sid]) ~> RouterEmitted(r)

\* A Router run holds a worker and streams while an Interrupt awaits the main
\* run of the same input with the flag set.
C21_Witness ==
    \E r \in DOMAIN reqs :
        /\ reqs[r].xpc = "gen"
        /\ cancel[reqs[r].sid]
        /\ r \in waited

\* ------------------------------------------------------------------- C22
\* The Router dispatch of input r failed: dispatch raised before it created a
\* task, or the task ended in its except clause.
RouterFault(r) == reqs[r].xpc = "none" \/ reqs[r].xres = <<"ERROR">>

\* C22: a Router fault does not kill the main run. For every input whose Router
\* dispatch failed the fault is surfaced as RouterResult{ERROR} and in no other
\* way, the main run of the input is started unless the orchestrator rejected
\* it, and the run ends with its terminal event.
C22_RouterFaultHarmless ==
    \A r \in DOMAIN reqs :
        RouterFault(r) =>
            /\ reqs[r].xres = <<"ERROR">>
            /\ reqs[r].hpc # "raised"
            /\ reqs[r].code # "STT_ROUTE_ERROR"
            /\ reqs[r].hpc = "done" /\ reqs[r].code = "" => reqs[r].rpc # "none"
            /\ reqs[r].rpc = "done" => reqs[r].nterm = 1

\* ------------------------------------------------------------------- C23
HARD_ERRORS == {"BAD_REQUEST", "AGENT_INVALID", "EMPTY", "MISSING_PARAMS", "NO_SESSION"}

\* C23: a step in which a handler answers a client event (Chat, JoinSTT) with
\* BAD_REQUEST, AGENT_INVALID, EMPTY, MISSING_PARAMS or NO_SESSION changes
\* nothing else: the sessions, their cancel flags, run handles and locks,
\* CLIENT_INDEX, the wanted rooms of the STT link, the memory threads and the
\* worker pool stay as they are, and no run and no Router task is created.
C23_RejectedNoEffect ==
    [][rejected' # rejected /\ rejected'.code \in HARD_ERRORS =>
        UNCHANGED <<sessions, cancel, current_task, lock_owner, lock_waiters, reqs,
                    waited, store, idle, getters, woken, tts_index, client_index,
                    closing, stt, stt_ops, cleanup>>]_vars

\* A malformed event was answered while a run of the session held a worker and
\* a subscription of the session stood in CLIENT_INDEX and in the wanted rooms.
C23_Witness ==
    /\ rejected.code \in HARD_ERRORS
    /\ \E r \in DOMAIN reqs : reqs[r].worker # 0 /\ reqs[r].sid = rejected.sid
    /\ \E cid \in STT_CLIENTS : client_index[cid].sid = rejected.sid /\ cid \in stt.wanted

\* ------------------------------------------------------------------- C24
\* p is the last Len(p) characters of t.
IsSuffix(p, t) == Len(p) <= Len(t) /\ p = SubSeq(t, Len(t) - Len(p) + 1, Len(t))

\* C24: for every content of a thread and every configured max_context_tokens,
\* preamble(thread_id) is null exactly for an empty thread; otherwise it is at
\* most max(64, max_context_tokens * 4) characters long, it is the transcript
\* when that fits the budget and else the last budget characters of it.
C24_PreambleBudget ==
    \A th \in THREADS :
        LET p == Preamble(store[th], max_context_tokens)
            t == TranscriptOf(store[th])
            budget == IF max_context_tokens * 4 > 64 THEN max_context_tokens * 4 ELSE 64
        IN  /\ p = NO_PREAMBLE <=> store[th] = <<>>
            /\ store[th] # <<>> =>
                   /\ Len(p) <= budget
                   /\ IsSuffix(p, t)
                   /\ Len(t) <= budget => p = t
                   /\ Len(t) > budget => Len(p) = budget

\* A run computed its preamble from a thread whose transcript is over the
\* budget of a window configured below 16 tokens.
C24_Witness ==
    \E r \in DOMAIN reqs :
        /\ reqs[r].pre # NO_PREAMBLE
        /\ max_context_tokens < 16
        /\ Len(reqs[r].pre) = 64
        /\ Len(TranscriptOf(store[reqs[r].thread])) > 64

\* ------------------------------------------------------------------- C25
\* C25: thread storage is append-only. In every step, whatever the session it
\* belongs to, the content a thread had before the step is a prefix of its
\* content after it: no entry is removed, reordered or changed.
C25_AppendOnly ==
    [][\A th \in THREADS :
          /\ Len(store[th]) <= Len(store'[th])
          /\ SubSeq(store'[th], 1, Len(store[th])) = store[th]]_vars

\* Two sessions have recorded turns on the same thread, an assistant turn among
\* them.
C25_Witness ==
    \E th \in THREADS :
        \E i, j \in 1..Len(store[th]) :
            /\ i < j
            /\ reqs[store[th][i].by].sid # reqs[store[th][j].by].sid
            /\ store[th][j].role = "assistant"

\* ------------------------------------------------------------------- C26
\* Request r is answered BUSY in this step.
BecomesBusy(r) ==
    /\ reqs'[r].code = "BUSY"
    /\ r \in DOMAIN reqs => reqs[r].code # "BUSY"

\* C26: current_task is cleared on every path that ends a run: a run whose task
\* is done is not the handle its session holds, and an input is answered BUSY
\* only while another run of its session is unfinished, so that a Chat sent
\* after the run ended is not rejected with BUSY.
C26_HandleCleared ==
    [][/\ \A r \in DOMAIN reqs' :
              reqs'[r].rpc = "done" => current_task'[reqs'[r].sid] # r
       /\ \A r \in DOMAIN reqs' :
              BecomesBusy(r) =>
                  \E a \in DOMAIN reqs :
                      a # r /\ reqs[a].sid = reqs'[r].sid /\ Active(a)]_vars

\* A run ended without a terminal event, its task cancelled, and a later input
\* of the same session was accepted.
C26_Witness ==
    \E a, r \in DOMAIN reqs :
        /\ a < r
        /\ reqs[a].sid = reqs[r].sid
        /\ reqs[a].rpc = "done"
        /\ reqs[a].nterm = 0
        /\ reqs[r].code = ""
        /\ reqs[r].hpc = "done"
        /\ reqs[r].rpc # "none"

\* ------------------------------------------------------------------- C27
\* The turns of r's thread that precede r's own user turn.
ThreadBefore(r) ==
    LET th == store[reqs[r].thread]
        own == {i \in DOMAIN th : th[i] = UserTurn(r)}
    IN  IF own = {} THEN th
        ELSE SubSeq(th, 1, (CHOOSE i \in own : \A j \in own : i <= j) - 1)

\* preamble + "\n\n" + user_text when the preamble is present, else user_text.
ComposedPayload(pre) ==
    IF pre = NO_PREAMBLE THEN <<"hi">> ELSE pre \o <<"\n", "\n">> \o <<"hi">>

\* C27: when memory is enabled, the run's preamble is computed from the thread
\* as it was before the run's user turn was appended, and the user payload the
\* engine receives is preamble + "\n\n" + user_text when a preamble is present
\* and user_text alone otherwise.
C27_PayloadComposed ==
    \A r \in DOMAIN reqs :
        (UsesMemory(r) /\ reqs[r].payload # NO_PREAMBLE) =>
            /\ reqs[r].pre = Preamble(ThreadBefore(r), max_context_tokens)
            /\ reqs[r].payload = ComposedPayload(reqs[r].pre)

\* ------------------------------------------------------------------- C28
\* The JoinSTT of p ends in this step without having subscribed: it was inside
\* ensure_connected or about to emit, and what it emits is Error STT_CONNECT,
\* not STTSubscribed.
JoinFails(p) ==
    /\ stt_ops[p] \in {"join_connect", "join_woken"}
    /\ stt_ops'[p] = ""

\* C28: when JoinSTT fails to connect or to subscribe upstream, the step that
\* emits Error STT_CONNECT has removed the CLIENT_INDEX mapping of the client
\* id, no STTSubscribed is emitted, and the client id is not left in the wanted
\* set of the link.
C28_FailedJoinCleansUp ==
    [][\A p \in STT_USERS :
            JoinFails(p) =>
                /\ client_index'[p[2]] = NO_SUB
                /\ p[2] \notin stt'.wanted]_vars

\* ------------------------------------------------------------------- C29
\* What run r emits or sends in this step.
NewEvents(r) ==
    IF Len(reqs'[r].trace) > Len(reqs[r].trace)
    THEN SubSeq(reqs'[r].trace, Len(reqs[r].trace) + 1, Len(reqs'[r].trace))
    ELSE <<>>

\* C29: the streaming loop polls the cancel flag at every delta emission and
\* before every upstream TTS send: once the cancel flag of the session is set,
\* the run emits no further ChatChunk and sends no further tts_text_chunk.
C29_NothingSentOnceCancelled ==
    [][\A r \in DOMAIN reqs :
         CancelSet(r) =>
             \A i \in DOMAIN NewEvents(r) :
                 ~IsChatChunk(NewEvents(r)[i]) /\ ~IsTtsChunk(NewEvents(r)[i])]_vars

\* ------------------------------------------------------------------- C30
\* The codes the orchestrator rejects an input with: lines 372-397.
REJECT_CODES == {"NO_SESSION", "MEM_UNKNOWN", "MEM_THREAD_REQUIRED", "BUSY"}

\* C30: a Router run is scheduled only for accepted inputs: for a Chat or an STT
\* transcript that the orchestrator rejects no Router task is scheduled, no
\* Worker is rented for one and no RouterResult is emitted.
C30_RouterOnlyIfAccepted ==
    \A r \in DOMAIN reqs :
        reqs[r].code \in REJECT_CODES =>
            /\ reqs[r].xpc = "none"
            /\ reqs[r].xworker = 0
            /\ reqs[r].xres = <<>>

\* ------------------------------------------------------------------- C31
\* The threads that drive the engine of worker w: the producer of a run inside
\* the stream of the model (r), the stream of a Router task (-r).
EngineUsers(w) ==
    {r \in DOMAIN reqs : reqs[r].ppc = "gen" /\ reqs[r].pworker = w} \cup
    {-r : r \in {x \in DOMAIN reqs : reqs[x].xpc = "gen" /\ reqs[x].xworker = w}}

\* C31: the engine of a Worker is driven by at most one producer thread at a
\* time: a Worker that was handed back to the pool has no producer thread left
\* inside its engine, so the next renter never generates concurrently with the
\* producer of the previous rental.
C31_OneProducerPerEngine ==
    \A w \in 1..POOL_SIZE :
        /\ (\E i \in DOMAIN idle : idle[i] = w) => EngineUsers(w) = {}
        /\ Cardinality(EngineUsers(w)) <= 1

\* ------------------------------------------------------------------- C32
\* C32: every Router dispatch with non-empty text emits exactly one
\* RouterResult to the originating sid, the parsed output or {ERROR}, never
\* both and never none: an input whose Router task ended, or for which none
\* was created, has one RouterResult, and no Router task ever has two.
C32_OneRouterResult ==
    \A r \in DOMAIN reqs :
        /\ Len(reqs[r].xres) <= 1
        /\ reqs[r].xpc \in {"none", "done"} => Len(reqs[r].xres) = 1

\* ------------------------------------------------------------------- C33
\* No JoinSTT or LeaveSTT is in flight, no disconnect is inside its unsubscribe
\* loop and the connect handler of the link is through.
SttQuiet ==
    /\ \A p \in DOMAIN stt_ops : stt_ops[p] = ""
    /\ \A sid \in SIDS : cleanup[sid] = <<>> /\ sid \notin closing
    /\ stt.resub = <<>>

\* C33: the wanted set of the STT link stays consistent with CLIENT_INDEX: once
\* the LeaveSTT and disconnect handlers have completed and every JoinSTT has
\* returned, neither the wanted set nor the rooms subscribed upstream hold a
\* client id that has no CLIENT_INDEX entry, whatever the interleaving of
\* JoinSTT, LeaveSTT, disconnect and reconnects of the link was.
C33_WantedHasMapping ==
    SttQuiet =>
        \A cid \in stt.wanted \cup stt.rooms : client_index[cid] # NO_SUB

====
